---- MODULE Spec2Model ----
(***************************************************************************)
(* A model of github.com/philpearl/csv: the Writer (writer.go, the version *)
(* with the cell counter) and the row Reader (Scan / scanCell with the     *)
(* cell-boundary table).  Bytes are integers 0..255, byte strings are      *)
(* sequences of bytes.  The caller writes lines with the Writer into a     *)
(* sink, opens a Reader over what the sink received, and scans rows.       *)
(***************************************************************************)
EXTENDS Integers, Sequences, FiniteSets, TLC

(***************************************************************************)
(* Byte values the code names.                                             *)
(***************************************************************************)
Comma     == 44
Quote     == 34
CR        == 13
LF        == 10
Space     == 32
Tab       == 9
Backslash == 92
Dot       == 46
Minus     == 45
Plus      == 43
LetterA   == 97
LetterB   == 98
LetterE   == 101
Digit0    == 48
NbspLead  == 194
NbspTail  == 160
RuneError == 65533

(***************************************************************************)
(* Bounds of the model.                                                    *)
(***************************************************************************)
MaxLen       == 2
MaxVals      == 2
MaxRows      == 2
MaxFieldVals == 2
MaxFieldRows == 1
MaxChunk     == 1

(***************************************************************************)
(* Helpers on byte strings.                                                *)
(***************************************************************************)
RECURSIVE SeqsUpTo(_, _)
SeqsUpTo(S, n) ==
  IF n = 0 THEN {<<>>}
  ELSE LET shorter == SeqsUpTo(S, n - 1)
       IN  shorter \cup {Append(q, x) : q \in shorter, x \in S}

ContainsAny(s, cs) == \E i \in 1..Len(s) : s[i] \in cs

RECURSIVE Flat(_)
Flat(ss) == IF ss = <<>> THEN <<>> ELSE Head(ss) \o Flat(Tail(ss))

(***************************************************************************)
(* utf8.DecodeRune on the first bytes of a field: one-byte (ASCII) and     *)
(* two-byte encodings are decoded, every other lead byte of the model's    *)
(* alphabet is an invalid encoding and decodes to RuneError.               *)
(***************************************************************************)
DecodeRune(field) ==
  IF field = <<>> THEN RuneError
  ELSE IF field[1] < 128 THEN field[1]
  ELSE IF /\ field[1] >= 194 /\ field[1] <= 223
          /\ Len(field) >= 2 /\ field[2] >= 128 /\ field[2] <= 191
       THEN (field[1] % 32) * 64 + (field[2] % 64)
  ELSE RuneError

(* unicode.IsSpace for the runes DecodeRune can produce (Latin-1 range). *)
IsSpace(rune) == rune \in {9, 10, 11, 12, 13, 32, 133, 160}

(***************************************************************************)
(* Writer                                                                  *)
(***************************************************************************)
NewWriter == [b |-> <<>>, count |-> 0]

(* Variant: the separator decided by the line buffer's length, not the counter. *)
comma_ByLength(wr) ==
  [b     |-> IF Len(wr.b) # 0 THEN Append(wr.b, Comma) ELSE wr.b,
   count |-> wr.count + 1]

comma(wr) ==
  [b     |-> IF wr.count # 0 THEN Append(wr.b, Comma) ELSE wr.b,
   count |-> wr.count + 1]

(* Variant: the white-space test looks at the first byte, not the first rune. *)
fieldNeedsQuotes_FirstByte(field) ==
  IF field = <<>> THEN FALSE
  ELSE IF field = <<Backslash, Dot>> \/ ContainsAny(field, {Comma, Quote, CR, LF})
       THEN TRUE
  ELSE IsSpace(field[1])

fieldNeedsQuotes(field) ==
  IF field = <<>> THEN FALSE
  ELSE IF field = <<Backslash, Dot>> \/ ContainsAny(field, {Comma, Quote, CR, LF})
       THEN TRUE
  ELSE IsSpace(DecodeRune(field))

(* Variant: without the test for backslash-dot. *)
byteFieldNeedsQuotes_NoSentinel(field) ==
  IF Len(field) = 0 THEN FALSE
  ELSE IF ContainsAny(field, {Comma, Quote, CR, LF}) THEN TRUE
  ELSE IsSpace(DecodeRune(field))

byteFieldNeedsQuotes(field) ==
  IF Len(field) = 0 THEN FALSE
  ELSE IF ContainsAny(field, {Comma, Quote, CR, LF}) THEN TRUE
  ELSE IF Len(field) = 2 /\ field[1] = Backslash /\ field[2] = Dot THEN TRUE
  ELSE IsSpace(DecodeRune(field))

(* Variant: quote bytes are copied like any other byte. *)
escapeLoop_NoDoubling(s) == s

(* The loop of String / Bytes: a quote byte is appended twice, any other once. *)
RECURSIVE escapeLoop(_)
escapeLoop(s) ==
  IF s = <<>> THEN <<>>
  ELSE (IF Head(s) = Quote THEN <<Quote, Quote>> ELSE <<Head(s)>>) \o escapeLoop(Tail(s))

String(wr, s) ==
  LET w1 == comma(wr)
  IN  IF ~fieldNeedsQuotes(s)
      THEN [w1 EXCEPT !.b = @ \o s]
      ELSE [w1 EXCEPT !.b = ((@ \o <<Quote>>) \o escapeLoop(s)) \o <<Quote>>]

Bytes(wr, s) ==
  LET w1 == comma(wr)
  IN  IF ~byteFieldNeedsQuotes(s)
      THEN [w1 EXCEPT !.b = @ \o s]
      ELSE [w1 EXCEPT !.b = ((@ \o <<Quote>>) \o escapeLoop(s)) \o <<Quote>>]

(* strconv.AppendInt(b, i, 10) *)
RECURSIVE Digits(_)
Digits(n) == IF n < 10 THEN <<Digit0 + n>> ELSE Append(Digits(n \div 10), Digit0 + (n % 10))

FormatInt(i) == IF i < 0 THEN <<Minus>> \o Digits(0 - i) ELSE Digits(i)

(* strconv.AppendBool *)
FormatBool(v) == IF v THEN <<116, 114, 117, 101>> ELSE <<102, 97, 108, 115, 101>>

(***************************************************************************)
(* strconv.AppendFloat(b, f, 'g', -1, 64).  A float is given by its        *)
(* shortest decimal: sign, digits d1..dn and the position dp of the        *)
(* decimal point (value 0.d1..dn * 10^dp).  With the shortest precision    *)
(* the %e form is used when the exponent dp-1 is < -4 or >= 21.            *)
(***************************************************************************)
DigitBytes(ds) == [i \in 1..Len(ds) |-> Digit0 + ds[i]]

RECURSIVE Zeros(_)
Zeros(n) == IF n <= 0 THEN <<>> ELSE <<Digit0>> \o Zeros(n - 1)

FormatFloat(f) ==
  LET n    == Len(f.digs)
      exp  == f.dp - 1
      sign == IF f.neg THEN <<Minus>> ELSE <<>>
      fmtE == LET e == IF exp < 0 THEN 0 - exp ELSE exp
              IN  (((<<Digit0 + f.digs[1]>>
                    \o (IF n > 1 THEN <<Dot>> \o DigitBytes(SubSeq(f.digs, 2, n)) ELSE <<>>))
                    \o <<LetterE>>)
                    \o <<IF exp < 0 THEN Minus ELSE Plus>>)
                    \o (IF e < 10 THEN <<Digit0>> \o Digits(e) ELSE Digits(e))
      fmtF == IF f.dp > 0
              THEN (DigitBytes(SubSeq(f.digs, 1, IF f.dp < n THEN f.dp ELSE n))
                    \o Zeros(f.dp - n))
                    \o (IF n > f.dp THEN <<Dot>> \o DigitBytes(SubSeq(f.digs, f.dp + 1, n))
                        ELSE <<>>)
              ELSE (<<Digit0, Dot>> \o Zeros(0 - f.dp)) \o DigitBytes(f.digs)
  IN  sign \o (IF exp < -4 \/ exp >= 21 THEN fmtE ELSE fmtF)

Bool(wr, v) == [comma(wr) EXCEPT !.b = @ \o FormatBool(v)]

Float64(wr, f) == [comma(wr) EXCEPT !.b = @ \o FormatFloat(f)]

Int64(wr, i) == [comma(wr) EXCEPT !.b = @ \o FormatInt(i)]

(* Variant: Skip always writes a comma and does not count as a value. *)
Skip_JustComma(wr) == [wr EXCEPT !.b = Append(@, Comma)]

(* Variant: Skip writes the separator that is due but is not counted. *)
Skip_Uncounted(wr) == [wr EXCEPT !.b = IF wr.count # 0 THEN Append(@, Comma) ELSE @]

Skip(wr) == comma(wr)

(* LineComplete over a sink whose Write succeeds (ok) or fails: the bytes  *)
(* handed to the sink in the one Write call, the Writer afterwards and the *)
(* error returned.                                                         *)
NoErr == [kind |-> "nil", c |-> 0]

ErrSink == [kind |-> "sink write failed", c |-> 0]

(* Variant: the cell counter is not reset. *)
LineComplete_KeepCount(wr, ok) ==
  [data |-> Append(wr.b, LF),
   w    |-> [b |-> <<>>, count |-> wr.count],
   err  |-> IF ok THEN NoErr ELSE ErrSink]

(* Variant: no LF is appended to the line. *)
LineComplete_NoLF(wr, ok) ==
  [data |-> wr.b,
   w    |-> [b |-> <<>>, count |-> 0],
   err  |-> IF ok THEN NoErr ELSE ErrSink]

(* Variant: a failed write returns before the line buffer is reset. *)
LineComplete_ReturnsEarly(wr, ok) ==
  [data |-> Append(wr.b, LF),
   w    |-> IF ok THEN [b |-> <<>>, count |-> 0]
            ELSE [b |-> Append(wr.b, LF), count |-> wr.count],
   err  |-> IF ok THEN NoErr ELSE ErrSink]

LineComplete(wr, ok) ==
  [data |-> Append(wr.b, LF),
   w    |-> [b |-> <<>>, count |-> 0],
   err  |-> IF ok THEN NoErr ELSE ErrSink]

(***************************************************************************)
(* Byte source (io.Reader).  It holds the bytes not yet delivered and      *)
(* hands out at most `chunk` of them per Read.  How it ends is `end`:      *)
(*   "eof"          Read on the exhausted source returns (0, io.EOF)       *)
(*   "eofWithData"  the Read that delivers the last bytes returns io.EOF   *)
(*                  with them, every later Read (0, io.EOF)                *)
(*   "err"          Read on the exhausted source returns (0, ErrIO): the   *)
(*                  source failed after delivering these bytes             *)
(*   "errWithData"  the Read that delivers the last bytes returns ErrIO    *)
(*                  with them, every later Read (0, ErrIO)                 *)
(*   "errThenEof"   the Read that delivers the last bytes returns ErrIO    *)
(*                  with them, every later Read (0, io.EOF)                *)
(* erred tells whether a Read has returned ErrIO.  A source may also       *)
(* return (0, nil): idle is the number of such Reads it makes before every *)
(* other Read, wait the number of them still to come before the next one.  *)
(***************************************************************************)
BufCap == 4096

EOF              == [kind |-> "EOF", c |-> 0]
ErrUnexpectedEOF == [kind |-> "unexpected EOF", c |-> 0]
ErrAfterQuote(c) == [kind |-> "unexpected char after terminating quote", c |-> c]
ErrAfterCell(c)  == [kind |-> "unexpected char after quoted cell", c |-> c]

ErrIO            == [kind |-> "source error", c |-> 0]

Ends == {"eof", "eofWithData", "err", "errWithData", "errThenEof"}

NewSourceEnding(data, chunk, end) ==
  [data |-> data, off |-> 0, chunk |-> chunk, end |-> end, erred |-> FALSE,
   idle |-> 0, wait |-> 0]

NewSource(data, chunk) == NewSourceEnding(data, chunk, "eof")

(* A source that returns (0, nil) `idle` times before every other Read. *)
NewSourceIdle(data, chunk, end, idle) ==
  [NewSourceEnding(data, chunk, end) EXCEPT !.idle = idle, !.wait = idle]

(* What Read returns with no bytes once the source is exhausted, and with  *)
(* its last bytes.                                                         *)
EndErr(end) == IF end \in {"err", "errWithData"} THEN ErrIO ELSE EOF

LastErr(end) ==
  CASE end = "eofWithData" -> EOF
    [] end \in {"errWithData", "errThenEof"} -> ErrIO
    [] OTHER -> NoErr

Min(a, b) == IF a < b THEN a ELSE b

SourceRead(sc, size) ==
  LET left == Len(sc.data) - sc.off
      n    == Min(Min(sc.chunk, size), left)
      err  == CASE left = 0 -> EndErr(sc.end)
                [] left > 0 /\ n = left -> LastErr(sc.end)
                [] OTHER -> NoErr
  IN  IF sc.wait > 0
      THEN [n |-> 0, err |-> NoErr, data |-> <<>>, src |-> [sc EXCEPT !.wait = @ - 1]]
      ELSE [n |-> n, err |-> err,
            data |-> SubSeq(sc.data, sc.off + 1, sc.off + n),
            src  |-> [sc EXCEPT !.off = @ + n, !.erred = @ \/ err = ErrIO,
                                !.wait = sc.idle]]

(***************************************************************************)
(* Reader.  bufStore is the written part of the read buffer's backing      *)
(* array (the rest of its BufCap bytes is zero), bufLen is len(r.buf);     *)
(* row holds the [lo, hi) offsets of the slices of parsed that Bytes       *)
(* returned, srow the strings rowStrings made.                             *)
(***************************************************************************)
cellStateBegin              == "Begin"
cellStateInQuote            == "InQuote"
cellStateInQuoteQuote       == "InQuoteQuote"
cellStateInCell             == "InCell"
cellStateTrailingWhiteSpace == "TrailingWhiteSpace"
cellStateSlashR             == "SlashR"

NewReader ==
  [bufStore |-> <<>>, bufLen |-> 0, pos |-> 0,
   parsed |-> <<>>, cellOffsets |-> <<>>,
   row |-> <<>>, srow |-> <<>>,
   rowDone |-> FALSE, fileDone |-> FALSE]

SetInput(rd) ==
  [rd EXCEPT !.pos = 0, !.bufLen = 0, !.rowDone = FALSE, !.fileDone = FALSE]

ReaderLen(rd) == Len(rd.cellOffsets) - 1

(* r.buf[i], 0-based, for i < len(r.buf) *)
BufAt(rd, i) == IF i < Len(rd.bufStore) THEN rd.bufStore[i + 1] ELSE 0

(***************************************************************************)
(* One byte through the switch of scanCell: the next state, the bytes      *)
(* appended to parsed, whether scanCell returns, whether the row is done,  *)
(* and the error returned.                                                 *)
(***************************************************************************)
Go(s, app)    == [s |-> s, app |-> app, ret |-> FALSE, rowDone |-> FALSE, err |-> NoErr]
EndCell(s, app) == [s |-> s, app |-> app, ret |-> TRUE, rowDone |-> FALSE, err |-> NoErr]
EndRow(s)     == [s |-> s, app |-> <<>>, ret |-> TRUE, rowDone |-> TRUE, err |-> NoErr]
Fail(s, e)    == [s |-> s, app |-> <<>>, ret |-> TRUE, rowDone |-> FALSE, err |-> e]

(* Variant: white space before a cell is kept. *)
stepBegin_KeepsSpace(s, c) ==
  CASE c = Quote -> Go(cellStateInQuote, <<>>)
    [] c = Comma -> EndCell(s, <<>>)
    [] c \in {Space, Tab} -> Go(cellStateInCell, <<c>>)
    [] c = CR -> Go(cellStateSlashR, <<>>)
    [] c = LF -> EndRow(s)
    [] OTHER -> Go(cellStateInCell, <<c>>)

stepBegin(s, c) ==
  CASE c = Quote -> Go(cellStateInQuote, <<>>)
    [] c = Comma -> EndCell(s, <<>>)
    [] c \in {Space, Tab} -> Go(cellStateBegin, <<>>)
    [] c = CR -> Go(cellStateSlashR, <<>>)
    [] c = LF -> EndRow(s)
    [] OTHER -> Go(cellStateInCell, <<c>>)

(* Variant: a quote inside an unquoted cell opens a quoted section. *)
stepInCell_QuoteOpens(s, c) ==
  CASE c = Quote -> Go(cellStateInQuote, <<>>)
    [] c = Comma -> EndCell(s, <<>>)
    [] c = CR -> Go(cellStateSlashR, <<>>)
    [] c = LF -> EndRow(s)
    [] OTHER -> Go(cellStateInCell, <<c>>)

stepInCell(s, c) ==
  CASE c = Comma -> EndCell(s, <<>>)
    [] c = CR -> Go(cellStateSlashR, <<>>)
    [] c = LF -> EndRow(s)
    [] OTHER -> Go(cellStateInCell, <<c>>)

(* Variant: a comma ends a quoted cell. *)
stepInQuote_CommaEnds(s, c) ==
  CASE c = Quote -> Go(cellStateInQuoteQuote, <<>>)
    [] c = Comma -> EndCell(s, <<>>)
    [] OTHER -> Go(cellStateInQuote, <<c>>)

stepInQuote(s, c) ==
  CASE c = Quote -> Go(cellStateInQuoteQuote, <<>>)
    [] OTHER -> Go(cellStateInQuote, <<c>>)

(* Variant: the second quote of a doubled quote is not appended. *)
stepInQuoteQuote_DropsQuote(s, c) ==
  CASE c = Quote -> Go(cellStateInQuote, <<>>)
    [] c = Comma -> EndCell(s, <<>>)
    [] c \in {Space, Tab} -> Go(cellStateTrailingWhiteSpace, <<>>)
    [] c = CR -> Go(cellStateSlashR, <<>>)
    [] c = LF -> EndRow(s)
    [] OTHER -> Fail(s, ErrAfterQuote(c))

(* Variant: only a space, not a tab, may follow a closing quote. *)
stepInQuoteQuote_SpaceOnly(s, c) ==
  CASE c = Quote -> Go(cellStateInQuote, <<c>>)
    [] c = Comma -> EndCell(s, <<>>)
    [] c = Space -> Go(cellStateTrailingWhiteSpace, <<>>)
    [] c = CR -> Go(cellStateSlashR, <<>>)
    [] c = LF -> EndRow(s)
    [] OTHER -> Fail(s, ErrAfterQuote(c))

stepInQuoteQuote(s, c) ==
  CASE c = Quote -> Go(cellStateInQuote, <<c>>)
    [] c = Comma -> EndCell(s, <<>>)
    [] c \in {Space, Tab} -> Go(cellStateTrailingWhiteSpace, <<>>)
    [] c = CR -> Go(cellStateSlashR, <<>>)
    [] c = LF -> EndRow(s)
    [] OTHER -> Fail(s, ErrAfterQuote(c))

(* Variant: a data byte after the white space that follows a closing     *)
(* quote is taken as cell data.                                            *)
stepTrailingWhiteSpace_Lenient(s, c) ==
  CASE c = Comma -> EndCell(s, <<>>)
    [] c \in {Space, Tab} -> Go(cellStateTrailingWhiteSpace, <<>>)
    [] c = CR -> Go(cellStateSlashR, <<>>)
    [] c = LF -> EndRow(s)
    [] OTHER -> Go(cellStateInCell, <<c>>)

stepTrailingWhiteSpace(s, c) ==
  CASE c = Comma -> EndCell(s, <<>>)
    [] c \in {Space, Tab} -> Go(cellStateTrailingWhiteSpace, <<>>)
    [] c = CR -> Go(cellStateSlashR, <<>>)
    [] c = LF -> EndRow(s)
    [] OTHER -> Fail(s, ErrAfterCell(c))

(* Variant: a pending CR is forgotten when a data byte follows. *)
stepSlashR_ForgetsCR(s, c) ==
  CASE c = Comma -> EndCell(s, <<CR>>)
    [] c = CR -> Go(cellStateSlashR, <<CR>>)
    [] c = LF -> EndRow(s)
    [] OTHER -> Go(cellStateInCell, <<c>>)

(* Variant: a CR that follows a pending CR is dropped. *)
stepSlashR_DropsCR(s, c) ==
  CASE c = Comma -> EndCell(s, <<CR>>)
    [] c = CR -> Go(cellStateSlashR, <<>>)
    [] c = LF -> EndRow(s)
    [] OTHER -> Go(cellStateInCell, <<CR, c>>)

stepSlashR(s, c) ==
  CASE c = Comma -> EndCell(s, <<CR>>)
    [] c = CR -> Go(cellStateSlashR, <<CR>>)
    [] c = LF -> EndRow(s)
    [] OTHER -> Go(cellStateInCell, <<CR, c>>)

cellStep(s, c) ==
  CASE s = cellStateBegin -> stepBegin(s, c)
    [] s = cellStateInCell -> stepInCell(s, c)
    [] s = cellStateInQuote -> stepInQuote(s, c)
    [] s = cellStateInQuoteQuote -> stepInQuoteQuote(s, c)
    [] s = cellStateTrailingWhiteSpace -> stepTrailingWhiteSpace(s, c)
    [] s = cellStateSlashR -> stepSlashR(s, c)

(***************************************************************************)
(* scanCell: the loop from cell state s on; result [r, src, err, s], s the  *)
(* value of the local cell state when scanCell returned.                   *)
(***************************************************************************)
(* Variant: the end of the stream inside a quoted field is no error. *)
endOfStream_Silent(rd, sc, s) ==
  [r   |-> [rd EXCEPT !.fileDone = TRUE, !.rowDone = TRUE],
   src |-> sc,
   err |-> NoErr,
   s   |-> s]

(* Variant: the bytes of the cell that was open at the end of the stream   *)
(* are dropped.                                                            *)
endOfStream_DropsOpenCell(rd, sc, s) ==
  [r   |-> [rd EXCEPT !.fileDone = TRUE, !.rowDone = TRUE,
                      !.parsed = SubSeq(@, 1, rd.cellOffsets[Len(rd.cellOffsets)])],
   src |-> sc,
   err |-> IF s = cellStateInQuote THEN ErrUnexpectedEOF ELSE NoErr,
   s   |-> s]

(* Variant: the end of the stream ends the row but is not remembered. *)
endOfStream_NotSticky(rd, sc, s) ==
  [r   |-> [rd EXCEPT !.rowDone = TRUE],
   src |-> sc,
   err |-> IF s = cellStateInQuote THEN ErrUnexpectedEOF ELSE NoErr,
   s   |-> s]

(* The source returned (0, io.EOF) while scanCell was in cell state s. *)
endOfStream(rd, sc, s) ==
  [r   |-> [rd EXCEPT !.fileDone = TRUE, !.rowDone = TRUE],
   src |-> sc,
   err |-> IF s = cellStateInQuote THEN ErrUnexpectedEOF ELSE NoErr,
   s   |-> s]

(* n zero bytes: a part of the read buffer that was never written. *)
ZeroBytes(n) == [i \in 1..n |-> 0]

(* From r.pos on, r.buf holds only never-written bytes, and in cell state  *)
(* s the switch appends such a byte and stays in s: the range loop then    *)
(* runs to the end of r.buf doing just that.                               *)
InZeroRun(rd, s) ==
  /\ rd.pos >= Len(rd.bufStore)
  /\ cellStep(s, 0) = Go(s, <<0>>)

RECURSIVE scanCellFrom(_, _, _)
(* Variant: r.buf is not cut to the n bytes that Read delivered. *)
scanCellFrom_KeepsLen(rd, sc, s) ==
  IF rd.pos >= rd.bufLen
  THEN LET got == SourceRead(sc, BufCap)
           r1  == [rd EXCEPT !.bufLen = BufCap]
       IN  IF got.n = 0 /\ got.err # NoErr
           THEN IF got.err = EOF
                THEN endOfStream(r1, got.src, s)
                ELSE [r |-> r1, src |-> got.src, err |-> got.err, s |-> s]
           ELSE scanCellFrom(
                  [rd EXCEPT !.bufStore = got.data \o SubSeq(@, got.n + 1, Len(@)),
                             !.bufLen = BufCap, !.pos = 0],
                  got.src, s)
  ELSE IF InZeroRun(rd, s)
  THEN scanCellFrom([rd EXCEPT !.pos = rd.bufLen,
                               !.parsed = @ \o ZeroBytes(rd.bufLen - rd.pos)],
                    sc, s)
  ELSE LET st == cellStep(s, BufAt(rd, rd.pos))
           r1 == [rd EXCEPT !.pos = @ + 1,
                            !.parsed = @ \o st.app,
                            !.rowDone = @ \/ st.rowDone]
       IN  IF st.ret THEN [r |-> r1, src |-> sc, err |-> st.err, s |-> s]
           ELSE scanCellFrom(r1, sc, st.s)

(* Variant: the cell state starts again at Begin after every refill. *)
scanCellFrom_RestartsCell(rd, sc, s) ==
  IF rd.pos >= rd.bufLen
  THEN LET got == SourceRead(sc, BufCap)
           r1  == [rd EXCEPT !.bufLen = BufCap]
       IN  IF got.n = 0 /\ got.err # NoErr
           THEN IF got.err = EOF
                THEN endOfStream(r1, got.src, s)
                ELSE [r |-> r1, src |-> got.src, err |-> got.err, s |-> s]
           ELSE scanCellFrom(
                  [rd EXCEPT !.bufStore = got.data \o SubSeq(@, got.n + 1, Len(@)),
                             !.bufLen = got.n, !.pos = 0],
                  got.src, cellStateBegin)
  ELSE IF InZeroRun(rd, s)
  THEN scanCellFrom([rd EXCEPT !.pos = rd.bufLen,
                               !.parsed = @ \o ZeroBytes(rd.bufLen - rd.pos)],
                    sc, s)
  ELSE LET st == cellStep(s, BufAt(rd, rd.pos))
           r1 == [rd EXCEPT !.pos = @ + 1,
                            !.parsed = @ \o st.app,
                            !.rowDone = @ \/ st.rowDone]
       IN  IF st.ret THEN [r |-> r1, src |-> sc, err |-> st.err, s |-> s]
           ELSE scanCellFrom(r1, sc, st.s)

scanCellFrom(rd, sc, s) ==
  IF rd.pos >= rd.bufLen
  THEN LET got == SourceRead(sc, BufCap)
           r1  == [rd EXCEPT !.bufLen = BufCap]
       IN  IF got.n = 0 /\ got.err # NoErr
           THEN IF got.err = EOF
                THEN endOfStream(r1, got.src, s)
                ELSE [r |-> r1, src |-> got.src, err |-> got.err, s |-> s]
           ELSE scanCellFrom(
                  [rd EXCEPT !.bufStore = got.data \o SubSeq(@, got.n + 1, Len(@)),
                             !.bufLen = got.n, !.pos = 0],
                  got.src, s)
  ELSE IF InZeroRun(rd, s)
  THEN scanCellFrom([rd EXCEPT !.pos = rd.bufLen,
                               !.parsed = @ \o ZeroBytes(rd.bufLen - rd.pos)],
                    sc, s)
  ELSE LET st == cellStep(s, BufAt(rd, rd.pos))
           r1 == [rd EXCEPT !.pos = @ + 1,
                            !.parsed = @ \o st.app,
                            !.rowDone = @ \/ st.rowDone]
       IN  IF st.ret THEN [r |-> r1, src |-> sc, err |-> st.err, s |-> s]
           ELSE scanCellFrom(r1, sc, st.s)

scanCell(rd, sc) == scanCellFrom(rd, sc, cellStateBegin)

(* The loop of Scan: s is the cell state the last scanCell returned in. *)
RECURSIVE scanRow(_, _, _)
(* Variant: the boundary appended after a cell is where the cell started. *)
scanRow_StartOffset(rd, sc, s) ==
  IF rd.rowDone THEN [r |-> rd, src |-> sc, err |-> NoErr, s |-> s]
  ELSE LET got == scanCell(rd, sc)
       IN  IF got.err # NoErr THEN got
           ELSE scanRow([got.r EXCEPT !.cellOffsets = Append(@, Len(rd.parsed))],
                        got.src, got.s)

(* Variant: no boundary is appended for an empty cell at the end of the    *)
(* stream.                                                                 *)
scanRow_DropsEmptyLast(rd, sc, s) ==
  IF rd.rowDone THEN [r |-> rd, src |-> sc, err |-> NoErr, s |-> s]
  ELSE LET got == scanCell(rd, sc)
       IN  IF got.err # NoErr THEN got
           ELSE scanRow([got.r EXCEPT !.cellOffsets =
                           IF got.r.fileDone /\ Len(got.r.parsed) = @[Len(@)] THEN @
                           ELSE Append(@, Len(got.r.parsed))],
                        got.src, got.s)

scanRow(rd, sc, s) ==
  IF rd.rowDone THEN [r |-> rd, src |-> sc, err |-> NoErr, s |-> s]
  ELSE LET got == scanCell(rd, sc)
       IN  IF got.err # NoErr THEN got
           ELSE scanRow([got.r EXCEPT !.cellOffsets = Append(@, Len(got.r.parsed))],
                        got.src, got.s)

NoCell == "none"

(* Variant: Scan truncates the accumulator and the boundary table before  *)
(* it looks at fileDone.                                                   *)
Scan_ResetsFirst(rd, sc) ==
  LET r1 == [rd EXCEPT !.parsed = <<>>, !.rowDone = FALSE,
                       !.srow = <<>>, !.row = <<>>, !.cellOffsets = <<0>>]
  IN  IF rd.fileDone THEN [r |-> r1, src |-> sc, err |-> EOF, s |-> NoCell]
      ELSE scanRow(r1, sc, NoCell)

(* Variant: Scan does not truncate parsed. *)
Scan_KeepsParsed(rd, sc) ==
  IF rd.fileDone THEN [r |-> rd, src |-> sc, err |-> EOF, s |-> NoCell]
  ELSE scanRow([rd EXCEPT !.rowDone = FALSE,
                          !.srow = <<>>, !.row = <<>>, !.cellOffsets = <<0>>],
               sc, NoCell)

Scan(rd, sc) ==
  IF rd.fileDone THEN [r |-> rd, src |-> sc, err |-> EOF, s |-> NoCell]
  ELSE scanRow([rd EXCEPT !.parsed = <<>>, !.rowDone = FALSE,
                          !.srow = <<>>, !.row = <<>>, !.cellOffsets = <<0>>],
               sc, NoCell)

(* The cells the boundary table delimits in parsed. *)
Cells(rd) ==
  [i \in 1..(Len(rd.cellOffsets) - 1) |->
     SubSeq(rd.parsed, rd.cellOffsets[i] + 1, rd.cellOffsets[i + 1])]

rowStrings(rd) == IF Len(rd.srow) # 0 THEN rd ELSE [rd EXCEPT !.srow = Cells(rd)]

(* Read after its call of Scan returned got. *)
readRow(got) ==
  IF got.err # NoErr THEN got ELSE [got EXCEPT !.r = rowStrings(@)]

Read(rd, sc) == readRow(Scan(rd, sc))

(* Bytes after its call of Scan returned got. *)
bytesRow(got) ==
  IF got.err # NoErr THEN got
  ELSE [got EXCEPT !.r.row =
          @ \o [i \in 1..(Len(got.r.cellOffsets) - 1) |->
                  <<got.r.cellOffsets[i], got.r.cellOffsets[i + 1]>>]]

ReadBytes(rd, sc) == bytesRow(Scan(rd, sc))

(***************************************************************************)
(* strconv.Atoi, strconv.ParseFloat(s, 64) and strconv.ParseBool on the    *)
(* bytes of a cell.  A result is [kind, fn, val, text]: kind "value" with  *)
(* the value in val, or kind "conversion error", a strconv.NumError with   *)
(* the function and the offending text.  Values are tuples: <<n>> for an   *)
(* int, <<1>> / <<0>> for true / false, <<sign, digits, frac, exp>> for    *)
(* the float sign * digits * 10^(exp - frac), the bytes for a text.  The   *)
(* strings of the model are short: no value is out of range, and none      *)
(* holds x, X, p, P or _ (hexadecimal floats, digit separators).           *)
(***************************************************************************)
Value(fn, v) == [kind |-> "value", fn |-> fn, val |-> v, text |-> <<>>]

ErrSyntax(fn, s) == [kind |-> "conversion error", fn |-> fn, val |-> <<>>, text |-> s]

IsDigit(c) == c >= 48 /\ c <= 57

AllDigits(s) == s # <<>> /\ \A i \in 1..Len(s) : IsDigit(s[i])

RECURSIVE DecValue(_)
DecValue(ds) ==
  IF ds = <<>> THEN 0
  ELSE 10 * DecValue(SubSeq(ds, 1, Len(ds) - 1)) + (ds[Len(ds)] - 48)

HasSign(s) == s # <<>> /\ s[1] \in {Minus, Plus}

Unsigned(s) == IF HasSign(s) THEN Tail(s) ELSE s

SignOf(s) == IF s # <<>> /\ s[1] = Minus THEN 0 - 1 ELSE 1

Atoi(s) ==
  IF AllDigits(Unsigned(s))
  THEN Value("Atoi", <<SignOf(s) * DecValue(Unsigned(s))>>)
  ELSE ErrSyntax("Atoi", s)

ParseBool(s) ==
  CASE s \in { <<49>>, <<116>>, <<84>>, <<84, 82, 85, 69>>, <<116, 114, 117, 101>>,
               <<84, 114, 117, 101>> } -> Value("ParseBool", <<1>>)
    [] s \in { <<48>>, <<102>>, <<70>>, <<70, 65, 76, 83, 69>>,
               <<102, 97, 108, 115, 101>>, <<70, 97, 108, 115, 101>> }
         -> Value("ParseBool", <<0>>)
    [] OTHER -> ErrSyntax("ParseBool", s)

ToLower(s) == [i \in 1..Len(s) |-> IF s[i] >= 65 /\ s[i] <= 90 THEN s[i] + 32 ELSE s[i]]

(* inf, infinity (with or without sign) and nan, in any case *)
IsSpecialFloat(s) ==
  \/ ToLower(Unsigned(s)) \in { <<105, 110, 102>>, <<105, 110, 102, 105, 110, 105, 116, 121>> }
  \/ ToLower(s) = <<110, 97, 110>>

(* The mantissa digits[.digits] with at least one digit, then an optional  *)
(* exponent e[sign]digits.                                                 *)
FloatParts(s) ==
  LET u    == Unsigned(s)
      ePos == {i \in 1..Len(u) : u[i] \in {101, 69}}
      e    == IF ePos = {} THEN Len(u) + 1 ELSE CHOOSE i \in ePos : \A j \in ePos : i <= j
      m    == SubSeq(u, 1, e - 1)
      x    == SubSeq(u, e + 1, Len(u))
      dots == {i \in 1..Len(m) : m[i] = Dot}
      d    == IF dots = {} THEN Len(m) + 1 ELSE CHOOSE i \in dots : TRUE
      digs == SubSeq(m, 1, d - 1) \o SubSeq(m, d + 1, Len(m))
  IN  [ok   |-> /\ Cardinality(dots) <= 1
                /\ AllDigits(digs)
                /\ ePos = {} \/ AllDigits(Unsigned(x)),
       digs |-> digs,
       frac |-> IF dots = {} THEN 0 ELSE Len(m) - d,
       exp  |-> IF ePos = {} THEN <<>> ELSE x]

ParseFloat(s) ==
  IF IsSpecialFloat(s) THEN Value("ParseFloat", <<SignOf(s)>> \o ToLower(Unsigned(s)))
  ELSE IF FloatParts(s).ok
  THEN Value("ParseFloat",
             <<SignOf(s), DecValue(FloatParts(s).digs), FloatParts(s).frac,
               IF FloatParts(s).exp = <<>> THEN 0
               ELSE SignOf(FloatParts(s).exp) * DecValue(Unsigned(FloatParts(s).exp))>>)
  ELSE ErrSyntax("ParseFloat", s)

(***************************************************************************)
(* The positional accessors.  An index outside the boundary table, or a    *)
(* slice of an empty table, makes the Go run time panic (index or slice    *)
(* bounds out of range): the call returns nothing.                         *)
(***************************************************************************)
Panic(fn) == [kind |-> "panic", fn |-> fn, val |-> <<>>, text |-> <<>>]

(* r.cellOffsets[i] and r.cellOffsets[i+1] exist *)
InTable(rd, i) == i >= 0 /\ i + 1 < Len(rd.cellOffsets)

(* r.parsed[r.cellOffsets[i]:r.cellOffsets[i+1]] *)
CellBytes(rd, i) == SubSeq(rd.parsed, rd.cellOffsets[i + 1] + 1, rd.cellOffsets[i + 2])

(* What an accessor returns and the Reader it leaves: [r, res]. *)
Accessed(rd, res) == [r |-> rd, res |-> res]

(* Variant: past the last cell, Int converts the last cell of the row. *)
ReaderInt_LastCell(rd, i) ==
  IF InTable(rd, i) THEN Accessed(rd, Atoi(CellBytes(rd, i)))
  ELSE IF ReaderLen(rd) >= 1 /\ i >= 0
  THEN Accessed(rd, Atoi(CellBytes(rd, ReaderLen(rd) - 1)))
  ELSE Accessed(rd, Panic("Int"))

(* Variant: a cell that does not convert is taken out of the row. *)
ReaderInt_DropsBadCell(rd, i) ==
  IF ~InTable(rd, i) THEN Accessed(rd, Panic("Int"))
  ELSE IF Atoi(CellBytes(rd, i)).kind = "value"
  THEN Accessed(rd, Atoi(CellBytes(rd, i)))
  ELSE Accessed([rd EXCEPT !.cellOffsets = SubSeq(@, 1, i + 1)], Atoi(CellBytes(rd, i)))

ReaderInt(rd, i) ==
  IF InTable(rd, i) THEN Accessed(rd, Atoi(CellBytes(rd, i)))
  ELSE Accessed(rd, Panic("Int"))

ReaderFloat(rd, i) ==
  IF InTable(rd, i) THEN Accessed(rd, ParseFloat(CellBytes(rd, i)))
  ELSE Accessed(rd, Panic("Float"))

ReaderBool(rd, i) ==
  IF InTable(rd, i) THEN Accessed(rd, ParseBool(CellBytes(rd, i)))
  ELSE Accessed(rd, Panic("Bool"))

(* Text: rowStrings, then the index into what it returned; [r, res] *)
ReaderText(rd, i) ==
  IF Len(rd.srow) = 0 /\ rd.cellOffsets = <<>>
  THEN Accessed(rd, Panic("Text"))
  ELSE IF i >= 0 /\ i < Len(rowStrings(rd).srow)
       THEN Accessed(rowStrings(rd), Value("Text", rowStrings(rd).srow[i + 1]))
       ELSE Accessed(rowStrings(rd), Panic("Text"))

(* What the last accessor call returned; before the first one, nothing.    *)
(* The sequential reader has no index: there i is the number of calls made *)
(* modulo 2, and before is the kind of result of the call before.          *)
NoRet ==
  [op |-> "none", i |-> 0, before |-> "none",
   res |-> [kind |-> "none", fn |-> "", val |-> <<>>, text |-> <<>>]]

Returns(op, i, res) == [op |-> op, i |-> i, before |-> "none", res |-> res]

(***************************************************************************)
(* The sequential reader: the caller pulls the cells of a row one after    *)
(* the other with Int(), Float(), Text() or Bytes(), asks ScanLine()       *)
(* whether the row has another cell and Scan() whether the file has        *)
(* another row.  Its buffer has 4096*8 bytes and its accumulator holds     *)
(* one cell.  The part of the buffer that no Read has written holds zero   *)
(* bytes; when they are read as data the cell gets thousands of them, so   *)
(* r.cell is kept as the bytes cell followed by zeros zero bytes, and a    *)
(* slice of it as [b, z].                                                  *)
(***************************************************************************)
PullBufCap == 32768

ErrQuoteAfterQuoted == [kind |-> "unexpected quote after quoted string", c |-> 0]

ErrRowDone == [kind |-> "row is already complete", fn |-> "", val |-> <<>>, text |-> <<>>]

(* An error of Bytes as the result of an accessor, with what came with it. *)
ReadErr(fn, err, v) == [kind |-> err.kind, fn |-> fn, val |-> v, text |-> <<>>]

NewPullReader ==
  [bufStore |-> <<>>, bufLen |-> 0, pos |-> 0, cell |-> <<>>, zeros |-> 0,
   rowDone |-> FALSE, fileDone |-> FALSE]

Slice(b, z) == [b |-> b, z |-> z]

NilSlice == Slice(<<>>, 0)

(* append(r.cell, app...) *)
AppendCell(p, app) ==
  IF app = <<>> THEN p
  ELSE [p EXCEPT !.cell = @ \o ZeroBytes(p.zeros) \o app, !.zeros = 0]

(* One byte through the switch of Bytes: the next state, the bytes         *)
(* appended to r.cell, whether Bytes returns, and then whether the row is  *)
(* done, whether r.cell or nil is returned, and the error.                 *)
PGo(s, app) ==
  [s |-> s, app |-> app, ret |-> FALSE, rowDone |-> FALSE, nilval |-> FALSE, err |-> NoErr]

PEndCell(app) ==
  [s |-> cellStateBegin, app |-> app, ret |-> TRUE, rowDone |-> FALSE, nilval |-> FALSE,
   err |-> NoErr]

PEndRow ==
  [s |-> cellStateBegin, app |-> <<>>, ret |-> TRUE, rowDone |-> TRUE, nilval |-> FALSE,
   err |-> NoErr]

PFail(s, nilval, e) ==
  [s |-> s, app |-> <<>>, ret |-> TRUE, rowDone |-> FALSE, nilval |-> nilval, err |-> e]

pullStep(s, c) ==
  CASE c = Quote ->
         (CASE s = cellStateBegin -> PGo(cellStateInQuote, <<>>)
            [] s = cellStateInQuote -> PGo(cellStateInQuoteQuote, <<>>)
            [] s = cellStateInQuoteQuote -> PGo(cellStateInQuote, <<c>>)
            [] s = cellStateInCell -> PGo(s, <<c>>)
            [] s = cellStateTrailingWhiteSpace -> PFail(s, TRUE, ErrQuoteAfterQuoted)
            [] s = cellStateSlashR -> PGo(cellStateInCell, <<CR, c>>))
    [] c = Comma ->
         (CASE s = cellStateInQuote -> PGo(s, <<c>>)
            [] s = cellStateSlashR -> PEndCell(<<CR>>)
            [] OTHER -> PEndCell(<<>>))
    [] c = Space ->
         (CASE s \in {cellStateBegin, cellStateTrailingWhiteSpace} -> PGo(s, <<>>)
            [] s = cellStateInQuote -> PGo(s, <<c>>)
            [] s = cellStateInQuoteQuote -> PGo(cellStateTrailingWhiteSpace, <<>>)
            [] s = cellStateSlashR -> PGo(s, <<CR, c>>)
            [] s = cellStateInCell -> PGo(s, <<c>>))
    [] c = CR ->
         (CASE s \in {cellStateInQuote, cellStateSlashR} -> PGo(s, <<c>>)
            [] OTHER -> PGo(cellStateSlashR, <<>>))
    [] c = LF ->
         (CASE s = cellStateInQuote -> PGo(s, <<c>>)
            [] OTHER -> PEndRow)
    [] OTHER ->
         (CASE s = cellStateBegin -> PGo(cellStateInCell, <<c>>)
            [] s = cellStateInQuote -> PGo(s, <<c>>)
            [] s = cellStateInQuoteQuote -> PFail(cellStateBegin, FALSE, ErrAfterQuote(c))
            [] s = cellStateSlashR -> PGo(cellStateInCell, <<CR, c>>)
            [] s = cellStateInCell -> PGo(s, <<c>>)
            [] s = cellStateTrailingWhiteSpace -> PFail(s, TRUE, ErrAfterCell(c)))

(* r.buf[r.pos] of the sequential reader *)
PullBufAt(p, i) == IF i < Len(p.bufStore) THEN p.bufStore[i + 1] ELSE 0

(* From r.pos on, r.buf holds only never-written bytes, and in state s the *)
(* switch appends such a byte and stays in s.                              *)
PullInZeroRun(p, s) ==
  /\ p.pos >= Len(p.bufStore)
  /\ pullStep(s, 0) = PGo(s, <<0>>)

(* What Bytes returns: the reader, the source, the slice (nil or r.cell)   *)
(* and the error.                                                          *)
BytesResult(p, sc, nilval, err) ==
  [r |-> p, src |-> sc, val |-> IF nilval THEN NilSlice ELSE Slice(p.cell, p.zeros),
   nilval |-> nilval, err |-> err]

RECURSIVE pullBytesFrom(_, _, _)
pullBytesFrom(p, sc, s) ==
  IF p.pos >= p.bufLen
  THEN LET got == SourceRead(sc, PullBufCap)
       IN  IF got.n = 0 /\ got.err # NoErr
           THEN IF got.err = EOF
                THEN BytesResult([p EXCEPT !.bufLen = PullBufCap, !.fileDone = TRUE,
                                           !.rowDone = TRUE],
                                 got.src, s = cellStateInQuote,
                                 IF s = cellStateInQuote THEN ErrUnexpectedEOF ELSE NoErr)
                ELSE BytesResult([p EXCEPT !.bufLen = PullBufCap], got.src, TRUE, got.err)
           ELSE pullBytesFrom(
                  [p EXCEPT !.bufStore = got.data \o SubSeq(@, got.n + 1, Len(@)),
                            !.bufLen = got.n, !.pos = 0],
                  got.src, s)
  ELSE IF PullInZeroRun(p, s)
  THEN pullBytesFrom([p EXCEPT !.pos = p.bufLen,
                               !.zeros = @ + (p.bufLen - p.pos)],
                     sc, s)
  ELSE LET st == pullStep(s, PullBufAt(p, p.pos))
           p1 == [AppendCell(p, st.app) EXCEPT !.pos = @ + 1,
                                               !.rowDone = @ \/ st.rowDone]
       IN  IF st.ret THEN BytesResult(p1, sc, st.nilval, st.err)
           ELSE pullBytesFrom(p1, sc, st.s)

(* Bytes: r.cell = r.cell[:0], then the loop from cellStateBegin. *)
PullBytes(p, sc) ==
  pullBytesFrom([p EXCEPT !.cell = <<>>, !.zeros = 0], sc, cellStateBegin)

(* Text: string(b) of what Bytes returned, with its error. *)
PullText(p, sc) == PullBytes(p, sc)

(* Int and Float: nothing is read when the row is done; an error of Bytes  *)
(* is returned as it is; otherwise the cell is converted.  [r, src, res]   *)
Converted(fn, got, conv) ==
  [r |-> got.r, src |-> got.src,
   res |-> IF got.err # NoErr THEN ReadErr(fn, got.err, <<>>) ELSE conv]

(* strconv on a slice: a text with a zero byte is no number. *)
PullAtoi(sl) == IF sl.z = 0 THEN Atoi(sl.b) ELSE ErrSyntax("Atoi", sl)

PullParseFloat(sl) == IF sl.z = 0 THEN ParseFloat(sl.b) ELSE ErrSyntax("ParseFloat", sl)

(* Variant: Int reads the next cell whether the row is done or not. *)
PullInt_Unguarded(p, sc) ==
  Converted("Int", PullBytes(p, sc), PullAtoi(PullBytes(p, sc).val))

PullInt(p, sc) ==
  IF p.rowDone THEN [r |-> p, src |-> sc, res |-> ErrRowDone]
  ELSE Converted("Int", PullBytes(p, sc), PullAtoi(PullBytes(p, sc).val))

PullFloat(p, sc) ==
  IF p.rowDone THEN [r |-> p, src |-> sc, res |-> ErrRowDone]
  ELSE Converted("Float", PullBytes(p, sc), PullParseFloat(PullBytes(p, sc).val))

(* ScanLine() bool *)
PullScanLine(p) == ~p.rowDone

(* Read: Text for every cell until the row is done; the row so far with   *)
(* the first error.                                                        *)
RECURSIVE pullReadFrom(_, _, _)
pullReadNext(got, row) ==
  IF got.err # NoErr
  THEN [r |-> got.r, src |-> got.src, val |-> row, nilval |-> row = <<>>, err |-> got.err]
  ELSE pullReadFrom(got.r, got.src, Append(row, got.val))

pullReadFrom(p, sc, row) ==
  IF PullScanLine(p) THEN pullReadNext(PullText(p, sc), row)
  ELSE [r |-> p, src |-> sc, val |-> row, nilval |-> row = <<>>, err |-> NoErr]

PullRead(p, sc) == pullReadFrom(p, sc, <<>>)

(* Scan() bool: the row starts again; false when the file is done. *)
PullScan(p) == [r |-> [p EXCEPT !.rowDone = FALSE], ok |-> ~p.fileDone]

(***************************************************************************)
(* The memory behind what Read, Text and Bytes hand out.  r.parsed and     *)
(* r.srow are slices of arrays that the Reader keeps: Scan cuts them to    *)
(* length 0 and append writes into the same array while its capacity       *)
(* lasts, and into a new array (the old one is left as it is) when it      *)
(* does not.  An array is [id, mem]: mem has the capacity as its length,   *)
(* id changes with every new array.  A byte slice or a string is           *)
(* [id, lo, hi, snap]: the bytes lo..hi of the array id of r.parsed while  *)
(* r.parsed still has that array, and the bytes snap otherwise (id 0: a    *)
(* copy of its own).  A []string is [id, n, snap] over the array of        *)
(* r.srow in the same way.  The bytes of a row are appended one at a time  *)
(* (inputs without carriage return).                                       *)
(***************************************************************************)
NilArray == [id |-> 1, mem |-> <<>>]

(* The capacities append gives a growing slice: first, then twice as much. *)
RECURSIVE GrowCap(_, _, _)
GrowCap(cap, need, first) ==
  IF cap >= need THEN cap
  ELSE GrowCap(IF cap = 0 THEN first ELSE 2 * cap, need, first)

Fill(n, zero) == [i \in 1..n |-> zero]

(* s = s[:0], then append(s, x) for every x of p.  left is what the array  *)
(* that was given up holds.                                                *)
Written(arr, p, first, zero) ==
  IF Len(p) <= Len(arr.mem)
  THEN [id |-> arr.id,
        mem |-> p \o SubSeq(arr.mem, Len(p) + 1, Len(arr.mem)),
        left |-> <<>>]
  ELSE [id |-> arr.id + 1,
        mem |-> p \o Fill(GrowCap(Len(arr.mem), Len(p), first) - Len(p), zero),
        left |-> SubSeq(p, 1, Len(arr.mem))]

NotWritten(arr) == [id |-> arr.id, mem |-> arr.mem, left |-> <<>>]

View(id, lo, hi, snap) == [id |-> id, lo |-> lo, hi |-> hi, snap |-> snap]

EmptyString == View(0, 0, 0, <<>>)

(* The bytes a slice or string shows now. *)
ViewBytes(parr, v) ==
  IF v.id = parr.id THEN SubSeq(parr.mem, v.lo + 1, v.hi) ELSE v.snap

(* The slice v after r.parsed went from the array old to what wr says. *)
Detached(v, old, wr) ==
  IF v.id = old.id /\ wr.id # old.id
  THEN [v EXCEPT !.snap = SubSeq(wr.left, v.lo + 1, v.hi)]
  ELSE v

DetachedAll(vs, old, wr) == [k \in 1..Len(vs) |-> Detached(vs[k], old, wr)]

(* Variant: the strings of a row share the array of r.parsed, as b does    *)
(* in Int, Float and Bool.                                                 *)
stringOf_Unsafe(parr, rd, k) ==
  View(parr.id, rd.cellOffsets[k], rd.cellOffsets[k + 1], <<>>)

(* s := string(r.parsed); s[lastOffset:offset] for cell k: a copy. *)
stringOf(parr, rd, k) ==
  View(0, rd.cellOffsets[k], rd.cellOffsets[k + 1],
       SubSeq(rd.parsed, rd.cellOffsets[k] + 1, rd.cellOffsets[k + 1]))

(* r.parsed[lastOffset:offset] for cell k *)
bytesOf(parr, rd, k) == View(parr.id, rd.cellOffsets[k], rd.cellOffsets[k + 1], <<>>)

NumCells(rd) == Len(rd.cellOffsets) - 1

(* A []string or [][]byte the caller holds: the slice, what it held when   *)
(* it was returned, and whether Scan, Read or Bytes was called since.      *)
NotHeld == [has |-> FALSE, id |-> 0, n |-> 0, snap |-> <<>>, want |-> <<>>, valid |-> FALSE]

HeldRow(id, n, want) ==
  [has |-> TRUE, id |-> id, n |-> n, snap |-> <<>>, want |-> want, valid |-> TRUE]

HeldCells(vs, want) ==
  [has |-> TRUE, id |-> 0, n |-> Len(vs), snap |-> vs, want |-> want, valid |-> TRUE]

(* A caller that keeps nothing, and one that does and has nothing yet. *)
NoViews == [on |-> FALSE]

HoldsViews ==
  [on |-> TRUE, parr |-> NilArray, sarr |-> NilArray,
   strs |-> <<>>, strsWant |-> <<>>,
   firstRow |-> NotHeld, lastRow |-> NotHeld,
   firstCells |-> NotHeld, lastCells |-> NotHeld]

(* The strings a []string shows now. *)
RowStrings(h, rv) == IF rv.id = h.sarr.id THEN SubSeq(h.sarr.mem, 1, rv.n) ELSE rv.snap

RowContent(h, rv) ==
  [k \in 1..Len(RowStrings(h, rv)) |-> ViewBytes(h.parr, RowStrings(h, rv)[k])]

CellsContent(h, cv) == [k \in 1..Len(cv.snap) |-> ViewBytes(h.parr, cv.snap[k])]

(* Scan wrote r.parsed (wr): every slice and string of the array that was  *)
(* given up keeps what that array holds; what the caller holds is no       *)
(* longer what the last call returned.                                     *)
Outdated(x, old, wr) ==
  [x EXCEPT !.snap = DetachedAll(@, old, wr), !.valid = FALSE]

AfterScan(h, wr) ==
  [h EXCEPT !.parr = [id |-> wr.id, mem |-> wr.mem],
            !.sarr.mem = DetachedAll(@, h.parr, wr),
            !.strs = DetachedAll(@, h.parr, wr),
            !.firstRow = Outdated(@, h.parr, wr),
            !.lastRow = Outdated(@, h.parr, wr),
            !.firstCells = Outdated(@, h.parr, wr),
            !.lastCells = Outdated(@, h.parr, wr)]

(* The []string x after r.srow went from the array old to what wr says. *)
RowDetached(x, old, wr) ==
  IF x.has /\ x.id = old.id /\ wr.id # old.id
  THEN [x EXCEPT !.snap = SubSeq(wr.left, 1, x.n)]
  ELSE x

(* rowStrings built r.srow from the strings ss (wr). *)
AfterRowStrings(h, wr) ==
  [h EXCEPT !.sarr = [id |-> wr.id, mem |-> wr.mem],
            !.firstRow = RowDetached(@, h.sarr, wr),
            !.lastRow = RowDetached(@, h.sarr, wr)]

NewStrings(h, rd) == [k \in 1..NumCells(rd) |-> stringOf(h.parr, rd, k)]

BuiltStrings(h, rd) ==
  AfterRowStrings(h, Written(h.sarr, NewStrings(h, rd), 1, EmptyString))

(* The caller keeps the strings it gets first, for good. *)
KeepStrings(h, ss, want) ==
  IF h.strs # <<>> \/ ss = <<>> THEN h
  ELSE [h EXCEPT !.strs = ss, !.strsWant = want]

(* Read returned r.srow: the caller holds it and its strings. *)
ReadReturned(h, rd) ==
  [KeepStrings(h, SubSeq(h.sarr.mem, 1, NumCells(rd)), rd.srow)
     EXCEPT !.lastRow = HeldRow(h.sarr.id, NumCells(rd), rd.srow),
            !.firstRow = IF @.has THEN @ ELSE HeldRow(h.sarr.id, NumCells(rd), rd.srow)]

(* Bytes returned r.row: the caller holds its byte slices. *)
BytesReturned(h, rd, vs) ==
  [h EXCEPT !.lastCells = HeldCells(vs, Cells(rd)),
            !.firstCells = IF @.has THEN @ ELSE HeldCells(vs, Cells(rd))]

(* What the caller holds after a call of Scan, Read or Bytes on the Reader *)
(* rd returned got.  A call at the end of the stream writes nothing.       *)
HeldAfterScan(h, rd, got) ==
  AfterScan(h, IF rd.fileDone THEN NotWritten(h.parr)
               ELSE Written(h.parr, got.r.parsed, 8, 0))

HeldReturn(h, got) ==
  IF got.err # NoErr THEN h
  ELSE IF got.r.srow # <<>> THEN ReadReturned(BuiltStrings(h, got.r), got.r)
  ELSE IF got.r.row # <<>>
  THEN BytesReturned(h, got.r, [k \in 1..NumCells(got.r) |-> bytesOf(h.parr, got.r, k)])
  ELSE h

HeldAfterCall(h, rd, got) ==
  IF h.on THEN HeldReturn(HeldAfterScan(h, rd, got), got) ELSE h

(* What the caller holds after Text(i) on the Reader rd returned got:      *)
(* rowStrings builds r.srow when it is empty.                              *)
HeldAfterText(h, rd, i, got) ==
  IF ~h.on \/ (got.res.kind = "panic" /\ got.r = rd) THEN h
  ELSE IF got.res.kind = "panic"
  THEN BuiltStrings(h, rd)
  ELSE IF rd.srow # <<>> THEN KeepStrings(h, <<h.sarr.mem[i + 1]>>, <<got.res.val>>)
  ELSE KeepStrings(BuiltStrings(h, rd), <<BuiltStrings(h, rd).sarr.mem[i + 1]>>,
                   <<got.res.val>>)

(***************************************************************************)
(* The system: a caller with a set of texts writes lines with a Writer     *)
(* into a sink, then opens a Reader over the bytes the sink accepted and   *)
(* scans rows from it.                                                     *)
(*   texts  the text values the caller writes in this run                  *)
(*   w      the Writer (b, count)                                          *)
(*   sink   the Write calls the sink received: [data, ok]                  *)
(*   werr   what the last LineComplete returned                            *)
(*   lines  the caller's record of the lines it completed: [vals, ok]      *)
(*   cur    the values appended since the last LineComplete: [op, text]    *)
(*   last   the last Writer call: [op, text, before (the Writer before)]   *)
(*   phase  "write" until the Reader is opened, then "read"                *)
(*   r      the Reader                                                     *)
(*   src    the Reader's byte source                                       *)
(*   rrows  the rows the successful Scan/Read/Bytes calls produced         *)
(*   rres   what the last Scan/Read/Bytes returned                         *)
(*   rs     the cell state in which the last scanCell of that call         *)
(*          returned (NoCell when the call ran no scanCell)                *)
(*   binds  the number of SetInput calls so far                            *)
(*   fresh  a second Reader (when fresh.on), made with NewReader over a    *)
(*          source that delivers the bytes src delivers, on which the      *)
(*          caller repeats every call it makes on r:                       *)
(*          [r, src, res, rows, on]                                        *)
(*   ret    what the last accessor call returned: [op, i, res]             *)
(*   pull   the Reader of the sequential variant (Scan() bool, ScanLine,   *)
(*          Int(), Float(), Text(), Bytes()), which reads from src too     *)
(*   held   the slices and strings the caller keeps from earlier calls,    *)
(*          and the arrays behind them                                     *)
(***************************************************************************)
VARIABLES texts, w, sink, werr, lines, cur, last, phase, r, src, rrows, rres, rs,
          binds, fresh, ret, pull, held

vars == <<texts, w, sink, werr, lines, cur, last, phase, r, src, rrows, rres, rs,
          binds, fresh, ret, pull, held>>

wvars == <<w, sink, werr, lines, cur, last>>

rvars == <<r, src, rrows, rres, rs, binds, fresh>>

(* A second Reader over source sc, before any call on it. *)
FreshOver(sc) ==
  [r |-> NewReader, src |-> sc, res |-> NoErr, rows |-> <<>>, on |-> TRUE]

(* The caller has no second Reader. *)
NoSecond == [FreshOver(NewSource(<<>>, 1)) EXCEPT !.on = FALSE]

(* Text fields: every byte string up to MaxLen over the bytes the quoting  *)
(* rules and the tokenizer distinguish, the Postgres terminator and its    *)
(* neighbours, and a no-break space (U+00A0) in first and in later place.  *)
FieldBytes == {LetterA, Comma, Quote, CR, LF, Space, Tab}

Fields ==
  SeqsUpTo(FieldBytes, MaxLen)
    \cup { <<Backslash, Dot>>, <<Backslash>>, <<Dot>>, <<Dot, Backslash>>,
           <<Backslash, Dot, LetterA>>, <<LetterA, Backslash, Dot>>,
           <<NbspLead, NbspTail>>, <<NbspLead, NbspTail, LetterA>>,
           <<LetterA, NbspLead, NbspTail>>, <<NbspTail>>, <<NbspLead>>,
           <<11>>, <<LetterA, 11>>, <<LetterA, Space, LetterA>> }

PlainTexts == { <<LetterA>>, <<LetterB, Digit0 + 1>> }

IntVals == { 0 - 12 }

FloatVals == { [neg |-> FALSE, digs |-> <<1, 7, 3, 8, 4, 9>>, dp |-> 1] }

Chunks == (1..MaxChunk) \cup {BufCap}

Values == Flat([i \in 1..Len(lines) |-> lines[i].vals]) \o cur

CanAppend(maxVals) == phase = "write" /\ Len(Values) < maxVals

Appended(op, text, w1) ==
  /\ w' = w1
  /\ cur' = Append(cur, [op |-> op, text |-> text])
  /\ last' = [op |-> op, text |-> text, before |-> w]
  /\ UNCHANGED <<texts, sink, werr, lines, phase, rvars, ret, pull, held>>

InitWith(ts) ==
  /\ texts = ts
  /\ w = NewWriter
  /\ sink = <<>>
  /\ werr = NoErr
  /\ lines = <<>>
  /\ cur = <<>>
  /\ last = [op |-> "NewWriter", text |-> <<>>, before |-> NewWriter]
  /\ phase = "write"
  /\ r = NewReader
  /\ src = NewSource(<<>>, 1)
  /\ rrows = <<>>
  /\ rres = NoErr
  /\ rs = NoCell
  /\ binds = 0
  /\ ret = NoRet
  /\ pull = NewPullReader
  /\ held = NoViews
  /\ fresh = NoSecond

(* The append operations, while the caller has written fewer than maxVals values. *)
DoString(maxVals) ==
  \E s \in texts : CanAppend(maxVals) /\ Appended("String", s, String(w, s))

DoBytes(maxVals) ==
  \E s \in texts : CanAppend(maxVals) /\ Appended("Bytes", s, Bytes(w, s))

DoInt64(maxVals) ==
  \E i \in IntVals : CanAppend(maxVals) /\ Appended("Int64", FormatInt(i), Int64(w, i))

DoFloat64(maxVals) ==
  \E f \in FloatVals :
    CanAppend(maxVals) /\ Appended("Float64", FormatFloat(f), Float64(w, f))

DoBool(maxVals) ==
  \E v \in BOOLEAN : CanAppend(maxVals) /\ Appended("Bool", FormatBool(v), Bool(w, v))

DoSkip(maxVals) == CanAppend(maxVals) /\ Appended("Skip", <<>>, Skip(w))

(* LineComplete with a sink whose Write succeeds (ok) or fails, while the   *)
(* caller has completed fewer than maxRows lines.                          *)
Completed(ok, maxRows) ==
  /\ phase = "write"
  /\ Len(lines) < maxRows
  /\ sink' = Append(sink, [data |-> LineComplete(w, ok).data, ok |-> ok])
  /\ werr' = LineComplete(w, ok).err
  /\ w' = LineComplete(w, ok).w
  /\ lines' = Append(lines, [vals |-> cur, ok |-> ok])
  /\ cur' = <<>>
  /\ last' = [op |-> "LineComplete", text |-> <<>>, before |-> w]
  /\ UNCHANGED <<texts, phase, rvars, ret, pull, held>>

DoLineComplete(maxRows) == Completed(TRUE, maxRows)

DoLineCompleteFails(maxRows) == Completed(FALSE, maxRows)

(* The bytes the sink accepted. *)
SinkBytes ==
  Flat([i \in 1..Len(sink) |-> IF sink[i].ok THEN sink[i].data ELSE <<>>])

(* NewReader over the sink's bytes, delivered at most `chunk` at a time. *)
Open ==
  /\ phase = "write"
  /\ cur = <<>>
  /\ \E chunk \in Chunks :
       /\ r' = NewReader
       /\ src' = NewSource(SinkBytes, chunk)
  /\ phase' = "read"
  /\ rrows' = <<>>
  /\ rres' = NoErr
  /\ rs' = NoCell
  /\ UNCHANGED <<texts, wvars, binds, fresh, ret, pull, held>>

(* The call `op` on reader rd over source sc. *)
Call(op, rd, sc) ==
  CASE op = "Scan" -> Scan(rd, sc)
    [] op = "Read" -> Read(rd, sc)
    [] op = "Bytes" -> ReadBytes(rd, sc)

(* The rows read so far, after a call returned got. *)
RowsAfter(rows, got) ==
  IF got.err = NoErr THEN Append(rows, Cells(got.r)) ELSE rows

(* The second Reader after the same call returned got on it. *)
Repeated(got) ==
  [r    |-> got.r,
   src  |-> got.src,
   res  |-> got.err,
   rows |-> RowsAfter(fresh.rows, got),
   on   |-> TRUE]

(* A call returned got; the same call returns again on the second Reader. *)
Returned(got, again) ==
  /\ phase = "read"
  /\ r' = got.r
  /\ src' = got.src
  /\ rres' = got.err
  /\ rs' = got.s
  /\ rrows' = RowsAfter(rrows, got)
  /\ fresh' = IF fresh.on THEN Repeated(again) ELSE fresh
  /\ held' = HeldAfterCall(held, r, got)
  /\ UNCHANGED <<texts, wvars, phase, binds, ret, pull>>

(* One call of Scan, Read or Bytes. *)
Scanned(op) == Returned(Call(op, r, src), Call(op, fresh.r, fresh.src))

DoScan == Scanned("Scan")

DoRead == Scanned("Read")

DoReadBytes == Scanned("Bytes")

(***************************************************************************)
(* Spec: lines of plain texts, numbers, booleans and skipped values are    *)
(* written to a sink that accepts every write, and read back.              *)
(***************************************************************************)
Init == InitWith(PlainTexts)

Next ==
  \/ DoString(MaxVals)
  \/ DoBytes(MaxVals)
  \/ DoInt64(MaxVals)
  \/ DoFloat64(MaxVals)
  \/ DoBool(MaxVals)
  \/ DoSkip(MaxVals)
  \/ DoLineComplete(MaxRows)
  \/ Open
  \/ DoScan
  \/ DoRead

Spec == Init /\ [][Next]_vars

(***************************************************************************)
(* SpecField: the caller has one text field, any of Fields.                *)
(***************************************************************************)
InitField == \E f \in Fields : InitWith({f})

NextField ==
  \/ DoString(MaxFieldVals)
  \/ DoBytes(MaxFieldVals)
  \/ DoSkip(MaxFieldVals)
  \/ DoLineComplete(MaxFieldRows)
  \/ Open
  \/ DoRead

SpecField == InitField /\ [][NextField]_vars

(***************************************************************************)
(* SpecSink: the Writer alone, over a sink whose writes may fail.          *)
(***************************************************************************)
NextSink ==
  \/ DoString(MaxVals)
  \/ DoBytes(MaxVals)
  \/ DoInt64(MaxVals)
  \/ DoFloat64(MaxVals)
  \/ DoBool(MaxVals)
  \/ DoSkip(MaxVals)
  \/ DoLineComplete(MaxRows)
  \/ DoLineCompleteFails(MaxRows)

SpecSink == Init /\ [][NextSink]_vars

(***************************************************************************)
(* SpecReader: a Reader over a source that delivers any byte string up to  *)
(* MaxIn bytes, or one of the inputs of TestRead.                          *)
(***************************************************************************)
MaxIn == 4

ReaderBytes == {LetterA, Comma, Quote, CR, LF, Space, Tab}

TestInputs ==
  { (* "a\n hat","b,,,","c "" hat", *)
    <<34, 97, 10, 32, 104, 97, 116, 34, 44, 34, 98, 44, 44, 44, 34, 44,
      34, 99, 32, 34, 34, 32, 104, 97, 116, 34, 44>>,
    (* a"b *)
    <<97, 34, 98>>,
    (*   "bc"  , a z, d *)
    <<32, 32, 34, 98, 99, 34, 32, 32, 44, 32, 97, 32, 122, 44, 32, 100>>,
    (* ,,"","",,\n *)
    <<44, 44, 34, 34, 44, 34, 34, 44, 44, 10>>,
    (* "a" " *)
    <<34, 97, 34, 32, 34>>,
    (* a, b\r\r\nc,d *)
    <<97, 44, 32, 98, 13, 13, 10, 99, 44, 100>>,
    (* a,"b *)
    <<97, 44, 34, 98>>,
    (* b\r",d *)
    <<98, 13, 34, 44, 100>>,
    (* TAB SPACE "a" SPACE TAB \r\n *)
    <<9, 32, 34, 97, 34, 32, 9, 13, 10>> }

Inputs == SeqsUpTo(ReaderBytes, MaxIn) \cup TestInputs

InitReader ==
  /\ texts = {}
  /\ w = NewWriter
  /\ sink = <<>>
  /\ werr = NoErr
  /\ lines = <<>>
  /\ cur = <<>>
  /\ last = [op |-> "NewWriter", text |-> <<>>, before |-> NewWriter]
  /\ phase = "read"
  /\ r = NewReader
  /\ \E data \in Inputs, chunk \in Chunks : src = NewSource(data, chunk)
  /\ rrows = <<>>
  /\ rres = NoErr
  /\ rs = NoCell
  /\ binds = 0
  /\ ret = NoRet
  /\ pull = NewPullReader
  /\ held = NoViews
  /\ fresh = NoSecond

NextReader ==
  \/ DoScan
  \/ DoRead
  \/ DoReadBytes

SpecReader == InitReader /\ [][NextReader]_vars

(***************************************************************************)
(* SpecRebind: a Reader is used on one source and then, at any point,      *)
(* given another source with SetInput (once in a run), as TestRead does    *)
(* between its cases.  Either source may fail instead of ending.           *)
(***************************************************************************)
MaxNewIn == 2

RebindBytes == {LetterA, Comma, Quote, LF}

(* The first source: it ends in a complete row, has a second row, an       *)
(* unterminated quote, a malformed quoted field, or nothing.               *)
OldInputs ==
  { <<>>,
    <<LetterA, LF>>,
    <<LetterA, LF, LetterA>>,
    <<Quote, LetterA>>,
    <<Quote, Quote, LetterA, Comma, LetterA>> }

(* The source given to SetInput. *)
NewInputs ==
  SeqsUpTo(RebindBytes, MaxNewIn)
    \cup { <<LetterA, Comma, LetterA, LF, LetterA>>, <<Quote, LetterA, Quote, LetterA>> }

InitRebind ==
  /\ texts = {}
  /\ w = NewWriter
  /\ sink = <<>>
  /\ werr = NoErr
  /\ lines = <<>>
  /\ cur = <<>>
  /\ last = [op |-> "NewWriter", text |-> <<>>, before |-> NewWriter]
  /\ phase = "read"
  /\ r = NewReader
  /\ \E data \in OldInputs, chunk \in Chunks, end \in Ends :
       src = NewSourceEnding(data, chunk, end)
  /\ rrows = <<>>
  /\ rres = NoErr
  /\ rs = NoCell
  /\ binds = 0
  /\ ret = NoRet
  /\ pull = NewPullReader
  /\ held = NoViews
  /\ fresh = NoSecond

(* r.SetInput(in), the caller starting a new list of rows, and NewReader(in') *)
(* for an in' that delivers what in delivers.                              *)
SetInputTo(inputs, chunks, ends) ==
  /\ phase = "read"
  /\ binds = 0
  /\ \E data \in inputs, chunk \in chunks, end \in ends :
       /\ src' = NewSourceEnding(data, chunk, end)
       /\ fresh' = FreshOver(NewSourceEnding(data, chunk, end))
  /\ r' = SetInput(r)
  /\ binds' = binds + 1
  /\ rrows' = <<>>
  /\ rres' = NoErr
  /\ rs' = NoCell
  /\ UNCHANGED <<texts, wvars, phase, ret, pull, held>>

DoSetInput == SetInputTo(NewInputs, Chunks, Ends)

NextRebind ==
  \/ DoScan
  \/ DoRead
  \/ DoReadBytes
  \/ DoSetInput

SpecRebind == InitRebind /\ [][NextRebind]_vars

(***************************************************************************)
(* SpecChunks: one byte string is read by two Readers.  The source of r    *)
(* splits it into Reads of at most `chunk` bytes, may return (0, nil)      *)
(* before every other Read and may return io.EOF with its last bytes; the  *)
(* source of the second Reader delivers it in one Read.  The caller makes  *)
(* every call on both.                                                     *)
(***************************************************************************)
MaxSplitIn == 3

MaxSplit == 3

MaxIdle == 1

SplitBytes == {LetterA, Comma, Quote, CR, LF, Space}

SplitInputs ==
  SeqsUpTo(SplitBytes, MaxSplitIn)
    \cup TestInputs
    \cup { (* "a""a",a *)
           <<34, 97, 34, 34, 97, 34, 44, 97>>,
           (* a\r\na *)
           <<97, 13, 10, 97>>,
           (* "a\r\n"\r\n *)
           <<34, 97, 13, 10, 34, 13, 10>> }

InitChunks ==
  /\ texts = {}
  /\ w = NewWriter
  /\ sink = <<>>
  /\ werr = NoErr
  /\ lines = <<>>
  /\ cur = <<>>
  /\ last = [op |-> "NewWriter", text |-> <<>>, before |-> NewWriter]
  /\ phase = "read"
  /\ r = NewReader
  /\ \E data \in SplitInputs, chunk \in 1..MaxSplit, idle \in 0..MaxIdle,
        end \in {"eof", "eofWithData"} :
       /\ src = NewSourceIdle(data, chunk, end, idle)
       /\ fresh = FreshOver(NewSource(data, BufCap))
  /\ rrows = <<>>
  /\ rres = NoErr
  /\ rs = NoCell
  /\ binds = 0
  /\ ret = NoRet
  /\ pull = NewPullReader
  /\ held = NoViews

NextChunks ==
  \/ DoScan
  \/ DoRead
  \/ DoReadBytes

SpecChunks == InitChunks /\ [][NextChunks]_vars

(* No call can change anything any more: io.EOF was returned. *)
CallsDone == phase = "read" /\ r.fileDone /\ rres.kind = "EOF"

(* The caller goes on calling until io.EOF: weak fairness of its calls,    *)
(* WF_vars(NextChunks), with ENABLED <<NextChunks>>_vars written as the    *)
(* state predicate ~CallsDone.                                             *)
CallerGoesOn == []<>CallsDone \/ []<><<NextChunks>>_vars

SpecChunksLive == SpecChunks /\ CallerGoesOn

(***************************************************************************)
(* The caller of the positional accessors: after any call of Scan, Read    *)
(* or Bytes, and before the first one, it calls Int(i), Float(i), Bool(i)  *)
(* and Text(i) in any order, for indexes inside and past the row.          *)
(***************************************************************************)
MaxIndex == 2
MaxAccessIn == 2

Digit1 == 49
LetterT == 116

AccessBytes == {Digit1, Dot, Comma, LF}

AccessInputs ==
  SeqsUpTo(AccessBytes, MaxAccessIn)
    \cup { <<49, 44, 49, 46, 49, 10, 116>>, <<49, 44, 116, 10, 49, 46>>,
           <<49, 44, 34, 49, 34, 116>>, <<116>>, <<116, 44, 49>>, <<49, 10, 116>> }

Indexes == 0..MaxIndex

InitAccess ==
  /\ texts = {}
  /\ w = NewWriter
  /\ sink = <<>>
  /\ werr = NoErr
  /\ lines = <<>>
  /\ cur = <<>>
  /\ last = [op |-> "NewWriter", text |-> <<>>, before |-> NewWriter]
  /\ phase = "read"
  /\ r = NewReader
  /\ \E data \in AccessInputs : src = NewSource(data, BufCap)
  /\ rrows = <<>>
  /\ rres = NoErr
  /\ rs = NoCell
  /\ binds = 0
  /\ ret = NoRet
  /\ pull = NewPullReader
  /\ held = NoViews
  /\ fresh = NoSecond

(* An accessor returned got for index i. *)
AccessReturned(op, i, got) ==
  /\ phase = "read"
  /\ r' = got.r
  /\ ret' = Returns(op, i, got.res)
  /\ held' = IF op = "Text" THEN HeldAfterText(held, r, i, got) ELSE held
  /\ UNCHANGED <<texts, wvars, phase, src, rrows, rres, rs, binds, fresh, pull>>

DoIntAt == \E i \in Indexes : AccessReturned("Int", i, ReaderInt(r, i))

DoFloatAt == \E i \in Indexes : AccessReturned("Float", i, ReaderFloat(r, i))

DoBoolAt == \E i \in Indexes : AccessReturned("Bool", i, ReaderBool(r, i))

DoTextAt == \E i \in Indexes : AccessReturned("Text", i, ReaderText(r, i))

NextAccess ==
  \/ DoScan
  \/ DoRead
  \/ DoReadBytes
  \/ DoIntAt
  \/ DoFloatAt
  \/ DoBoolAt
  \/ DoTextAt

SpecAccess == InitAccess /\ [][NextAccess]_vars

(***************************************************************************)
(* The caller of the sequential reader: Scan(), ScanLine(), Int(),         *)
(* Float(), Text(), Bytes() and Read() in any order, the loops of the      *)
(* examples and the calls without Scan of the tests included.              *)
(***************************************************************************)
MaxPullIn == 3
MaxPullChunk == 1

LetterH == 104

PullBytesIn == {Digit1, LetterH, Comma, LF, Quote}

PullInputs ==
  SeqsUpTo(PullBytesIn, MaxPullIn)
    \cup { <<49, 44, 32, 52, 50, 44, 32, 49, 51, 46, 50>>,
           <<49, 44, 32, 52, 50, 46, 50, 44, 32, 49, 50, 104, 50>>,
           <<49, 104, 10, 49, 44, 49>> }

InitPull ==
  /\ texts = {}
  /\ w = NewWriter
  /\ sink = <<>>
  /\ werr = NoErr
  /\ lines = <<>>
  /\ cur = <<>>
  /\ last = [op |-> "NewWriter", text |-> <<>>, before |-> NewWriter]
  /\ phase = "read"
  /\ r = NewReader
  /\ \E data \in PullInputs, chunk \in (1..MaxPullChunk) \cup {PullBufCap} :
       src = NewSource(data, chunk)
  /\ rrows = <<>>
  /\ rres = NoErr
  /\ rs = NoCell
  /\ binds = 0
  /\ ret = NoRet
  /\ pull = NewPullReader
  /\ held = NoViews
  /\ fresh = NoSecond

(* A method of the sequential reader returned res and left the reader p    *)
(* and the source sc.                                                      *)
PullReturned(op, p, sc, res) ==
  /\ phase = "read"
  /\ pull' = p
  /\ src' = sc
  /\ ret' = [op |-> op, i |-> 1 - ret.i, before |-> ret.res.kind, res |-> res]
  /\ UNCHANGED <<texts, wvars, phase, r, rrows, rres, rs, binds, fresh, held>>

BoolValue(fn, b) == Value(fn, IF b THEN <<1>> ELSE <<0>>)

DoPullScan ==
  PullReturned("Scan", PullScan(pull).r, src, BoolValue("Scan", PullScan(pull).ok))

DoPullScanLine ==
  PullReturned("ScanLine", pull, src, BoolValue("ScanLine", PullScanLine(pull)))

Converting(op, got) == PullReturned(op, got.r, got.src, got.res)

DoPullInt == Converting("Int", PullInt(pull, src))

DoPullFloat == Converting("Float", PullFloat(pull, src))

(* The slice or string and the error of Bytes and Text as one result. *)
CellResult(fn, got) ==
  IF got.err = NoErr THEN Value(fn, got.val) ELSE ReadErr(fn, got.err, got.val)

Pulled(op, got) == PullReturned(op, got.r, got.src, CellResult(op, got))

DoPullBytes == Pulled("Bytes", PullBytes(pull, src))

DoPullText == Pulled("Text", PullText(pull, src))

DoPullRead == Pulled("Read", PullRead(pull, src))

NextPull ==
  \/ DoPullScan
  \/ DoPullScanLine
  \/ DoPullInt
  \/ DoPullFloat
  \/ DoPullBytes
  \/ DoPullText
  \/ DoPullRead

SpecPull == InitPull /\ [][NextPull]_vars

(***************************************************************************)
(* The caller that keeps what it was given: the strings of its first Read  *)
(* or Text, the []string of its first and of its last Read, the byte       *)
(* slices of its first and of its last Bytes, over any calls of Scan,      *)
(* Read, Bytes, Text and one SetInput.                                     *)
(***************************************************************************)
MaxViewIn == 2

ViewBytesIn == {LetterA, LetterB, Comma, LF}

ViewInputs ==
  SeqsUpTo(ViewBytesIn, MaxViewIn)
    \cup { <<97, 44, 97, 10, 98, 44, 98>>, <<97, 10, 98, 44, 98>>,
           <<97, 10, 98, 98, 98, 98, 98, 98, 98, 98, 98, 10, 97>> }

ViewNewInputs == { <<98>>, <<98, 44, 98, 10, 97>> }

InitViews ==
  /\ texts = {}
  /\ w = NewWriter
  /\ sink = <<>>
  /\ werr = NoErr
  /\ lines = <<>>
  /\ cur = <<>>
  /\ last = [op |-> "NewWriter", text |-> <<>>, before |-> NewWriter]
  /\ phase = "read"
  /\ r = NewReader
  /\ \E data \in ViewInputs : src = NewSource(data, BufCap)
  /\ rrows = <<>>
  /\ rres = NoErr
  /\ rs = NoCell
  /\ binds = 0
  /\ ret = NoRet
  /\ pull = NewPullReader
  /\ held = HoldsViews
  /\ fresh = NoSecond

DoSetInputView == SetInputTo(ViewNewInputs, {BufCap}, {"eof"})

NextViews ==
  \/ DoScan
  \/ DoRead
  \/ DoReadBytes
  \/ DoTextAt
  \/ DoSetInputView

SpecViews == InitViews /\ [][NextViews]_vars

(***************************************************************************)
(* Properties                                                              *)
(***************************************************************************)
AppendOps == {"String", "Bytes", "Int64", "Float64", "Bool", "Skip"}

(* The rows the caller wrote: per completed line, the text of each value. *)
WrittenRow(i) == [j \in 1..Len(lines[i].vals) |-> lines[i].vals[j].text]

WrittenRows == [i \in 1..Len(lines) |-> WrittenRow(i)]

(* The Reader was opened over the sink and has returned io.EOF. *)
ReadBack == phase = "read" /\ rres = EOF

(* Every line consists of one or more values written with String. *)
StringRowsOnly ==
  \A i \in 1..Len(lines) :
    /\ Len(lines[i].vals) >= 1
    /\ \A j \in 1..Len(lines[i].vals) : lines[i].vals[j].op = "String"

EmptyRow == << <<>> >>

(* C1, as claimed: rows of plain text fields written with String and       *)
(* LineComplete and read back until io.EOF are reproduced exactly, nothing *)
(* added and nothing lost.                                                 *)
C1_RoundTripExact == (ReadBack /\ StringRowsOnly) => rrows = WrittenRows

(* C1, amended: the rows read back until io.EOF are the rows written, in   *)
(* order and with the same fields, followed by one more row that holds a   *)
(* single empty cell (what follows the last LF, or the empty stream).      *)
C1_RoundTripThenEmptyRow ==
  (ReadBack /\ StringRowsOnly) => rrows = Append(WrittenRows, EmptyRow)

C1_Witness ==
  /\ ReadBack
  /\ StringRowsOnly
  /\ Len(lines) = 2
  /\ WrittenRow(1) = << <<LetterA>> >>
  /\ WrittenRow(2) = << <<LetterB, Digit0 + 1>> >>
  /\ src.chunk = 1
  /\ rrows = Append(WrittenRows, EmptyRow)

(* C2, as claimed: a line written with n >= 0 append operations and        *)
(* LineComplete is read back as a row of exactly n cells.                  *)
C2_CellCountExact ==
  ReadBack =>
    \A i \in 1..Len(lines) :
      i <= Len(rrows) /\ Len(rrows[i]) = Len(lines[i].vals)

(* C2, amended: a line written with n >= 1 append operations is read back  *)
(* as a row of exactly n cells; a line completed with no value (n = 0) is  *)
(* read back as a row of one empty cell.                                   *)
C2_CellCount ==
  ReadBack =>
    \A i \in 1..Len(lines) :
      /\ i <= Len(rrows)
      /\ Len(lines[i].vals) >= 1 => Len(rrows[i]) = Len(lines[i].vals)
      /\ Len(lines[i].vals) = 0 => rrows[i] = EmptyRow

C2_Witness ==
  /\ ReadBack
  /\ Len(lines) = 2
  /\ Len(lines[1].vals) = 2
  /\ {lines[1].vals[j].op : j \in 1..2} = {"Skip", "Int64"}
  /\ Len(lines[2].vals) = 0
  /\ Len(rrows[1]) = 2
  /\ rrows[2] = EmptyRow

(***************************************************************************)
(* Text fields, as the claims describe them (bytes written out, not the    *)
(* model's constants, so that the statements do not depend on the model of *)
(* the code).                                                              *)
(***************************************************************************)
HasSeparatorOrQuote(f) == \E i \in 1..Len(f) : f[i] \in {44, 34}

HasLineBreak(f) == \E i \in 1..Len(f) : f[i] \in {13, 10}

(* The first character is white space: an ASCII white space byte, or the   *)
(* two-byte encoding of U+0085 or U+00A0.                                  *)
StartsWithWhitespace(f) ==
  /\ Len(f) >= 1
  /\ \/ f[1] \in {9, 10, 11, 12, 13, 32}
     \/ Len(f) >= 2 /\ f[1] = 194 /\ f[2] \in {133, 160}

MustBeQuoted(f) ==
  /\ Len(f) >= 1
  /\ \/ HasSeparatorOrQuote(f)
     \/ HasLineBreak(f)
     \/ StartsWithWhitespace(f)
     \/ f = <<92, 46>>

(* The number of quote bytes among the first n bytes of f. *)
QuotesBefore(f, n) == Cardinality({i \in 1..n : f[i] = 34})

(* body is f with every quote byte twice and every other byte once. *)
IsDoubled(body, f) ==
  /\ Len(body) = Len(f) + QuotesBefore(f, Len(f))
  /\ \A i \in 1..Len(f) :
       /\ body[i + QuotesBefore(f, i - 1)] = f[i]
       /\ f[i] = 34 => body[i + QuotesBefore(f, i - 1) + 1] = 34

IsQuotedForm(out, f) ==
  /\ Len(out) >= 2
  /\ out[1] = 34
  /\ out[Len(out)] = 34
  /\ IsDoubled(SubSeq(out, 2, Len(out) - 1), f)

(* The bytes the last String or Bytes call appended after the separator. *)
LastWasText == last.op \in {"String", "Bytes"}

LastOut ==
  SubSeq(w.b,
         Len(last.before.b) + (IF last.before.count # 0 THEN 1 ELSE 0) + 1,
         Len(w.b))

(* C3: a text field that contains a comma or a double quote (likewise CR,  *)
(* LF or leading white space), written with String or Bytes, is read back  *)
(* by the Reader as a cell equal to the field, byte for byte.              *)
C3_QuotingRoundTrip ==
  ReadBack =>
    \A i \in 1..Len(lines) : \A j \in 1..Len(lines[i].vals) :
      LET v == lines[i].vals[j]
      IN  (/\ v.op \in {"String", "Bytes"}
           /\ \/ HasSeparatorOrQuote(v.text)
              \/ HasLineBreak(v.text)
              \/ StartsWithWhitespace(v.text))
          => /\ i <= Len(rrows)
             /\ j <= Len(rrows[i])
             /\ rrows[i][j] = v.text

C3_Witness ==
  /\ ReadBack
  /\ texts = {<<34, 44>>}
  /\ Len(lines) = 1
  /\ Len(lines[1].vals) = 2
  /\ lines[1].vals[1].op = "Bytes"
  /\ lines[1].vals[2].op = "String"
  /\ src.chunk = 1
  /\ rrows[1] = << <<34, 44>>, <<34, 44>> >>

(* C4: a field passed to String or Bytes is written wrapped in quotes if   *)
(* and only if it is non-empty and contains a comma, a double quote, a CR  *)
(* or an LF, or starts with white space, or is exactly backslash-dot;      *)
(* otherwise (empty, or white space only inside) it is written as it is.   *)
C4_QuotingDecision ==
  LastWasText =>
    IF MustBeQuoted(last.text)
    THEN /\ Len(LastOut) >= Len(last.text) + 2
         /\ LastOut[1] = 34
         /\ LastOut[Len(LastOut)] = 34
    ELSE LastOut = last.text

C4_Witness ==
  /\ last.op = "Bytes"
  /\ last.text = <<92, 46>>
  /\ last.before.count = 1
  /\ LastOut = <<34, 92, 46, 34>>

C4_WitnessUnquoted ==
  /\ last.op = "String"
  /\ last.text = <<97, 32, 97>>
  /\ LastOut = <<97, 32, 97>>

(* C5: when a field requires quoting, the bytes appended for it are one    *)
(* quote, the field's bytes in order with every quote byte twice and every *)
(* other byte unchanged, and one quote; when it does not, the field's      *)
(* bytes are appended unchanged.                                           *)
C5_QuotedEncoding ==
  LastWasText =>
    IF MustBeQuoted(last.text)
    THEN IsQuotedForm(LastOut, last.text)
    ELSE LastOut = last.text

C5_Witness ==
  /\ last.op = "String"
  /\ last.text = <<34, 44>>
  /\ LastOut = <<34, 34, 34, 44, 34>>

(* The values of a line joined by commas. *)
RECURSIVE Joined(_)
Joined(row) ==
  IF row = <<>> THEN <<>>
  ELSE IF Len(row) = 1 THEN row[1]
  ELSE (row[1] \o <<44>>) \o Joined(Tail(row))

CommaCount(s) == Cardinality({i \in 1..Len(s) : s[i] = 44})

CurRow == [j \in 1..Len(cur) |-> cur[j].text]

(* C6: within a line a comma is emitted immediately before an appended     *)
(* value if and only if a value has already been appended since the last   *)
(* LineComplete, so a line of n >= 1 values holds exactly n-1 separator    *)
(* commas, also when a value is skipped.  (The values of these runs hold   *)
(* no comma themselves.)                                                   *)
C6_SeparatorPlacement ==
  /\ last.op \in AppendOps =>
       w.b = (last.before.b \o (IF Len(cur) >= 2 THEN <<44>> ELSE <<>>)) \o last.text
  /\ CommaCount(w.b) = (IF Len(cur) = 0 THEN 0 ELSE Len(cur) - 1)
  /\ \A i \in 1..Len(lines) :
       Len(lines[i].vals) >= 1 => CommaCount(sink[i].data) = Len(lines[i].vals) - 1

C6_Witness ==
  /\ Len(cur) = 2
  /\ cur[1].op = "Skip"
  /\ cur[2].op = "String"
  /\ w.b = <<44, 97>>

(* C7: LineComplete appends one LF and hands the whole line, the values    *)
(* appended since the previous LineComplete and the LF, to the sink in one *)
(* write; the append operations write nothing to the sink.  So the sink    *)
(* has received one write per LineComplete, in order, each ending in LF.   *)
C7_LineCompletion ==
  /\ Len(sink) = Len(lines)
  /\ \A i \in 1..Len(lines) : sink[i].data = Append(Joined(WrittenRow(i)), 10)
  /\ last.op = "LineComplete" => sink[Len(sink)].data = Append(last.before.b, 10)

C7_Witness ==
  /\ Len(sink) = 2
  /\ sink[1].data = <<116, 114, 117, 101, 10>>
  /\ sink[2].data = <<45, 49, 50, 10>>
  /\ last.op = "LineComplete"

(* C8: when the sink's write fails, LineComplete returns that error and    *)
(* the line buffer and the cell counter are reset all the same, so the     *)
(* next line holds only the values appended after the failed LineComplete  *)
(* and starts without a comma.                                             *)
C8_FailedFlush ==
  /\ last.op = "LineComplete" =>
       /\ werr = (IF sink[Len(sink)].ok THEN NoErr ELSE ErrSink)
       /\ w.b = <<>>
       /\ w.count = 0
  /\ (Len(sink) >= 1 /\ ~sink[Len(sink)].ok) => w.b = Joined(CurRow)
  /\ \A i \in 2..Len(sink) :
       ~sink[i - 1].ok => sink[i].data = Append(Joined(WrittenRow(i)), 10)

C8_Witness ==
  /\ Len(sink) = 2
  /\ ~sink[1].ok
  /\ Len(lines[1].vals) = 1
  /\ sink[2].ok
  /\ sink[2].data = <<97, 10>>
  /\ werr = NoErr

C8_WitnessError ==
  /\ last.op = "LineComplete"
  /\ Len(last.before.b) > 0
  /\ werr = ErrSink
  /\ w.b = <<>>
  /\ w.count = 0

(***************************************************************************)
(* Reader properties.  A row has been scanned from the start of the input  *)
(* when rrows is not empty; rrows[1] is the first row of the input.        *)
(***************************************************************************)
CellContents == SeqsUpTo(ReaderBytes, MaxIn - 2)

(* data is the quoted form of x followed by rest. *)
QuotedThen(data, x, rest) ==
  /\ Len(data) = Len(x) + QuotesBefore(x, Len(x)) + 2 + Len(rest)
  /\ IsQuotedForm(SubSeq(data, 1, Len(data) - Len(rest)), x)
  /\ SubSeq(data, Len(data) - Len(rest) + 1, Len(data)) = rest

QuoteSpecialCases ==
  <<34, 97, 10, 32, 104, 97, 116, 34, 44, 34, 98, 44, 44, 44, 34, 44,
    34, 99, 32, 34, 34, 32, 104, 97, 116, 34, 44>>

QuoteSpecialCasesRow ==
  << <<97, 10, 32, 104, 97, 116>>, <<98, 44, 44, 44>>,
     <<99, 32, 34, 32, 104, 97, 116>>, <<>> >>

(* C9: for a cell that starts with a double quote every byte up to the     *)
(* closing quote (comma, CR, LF, space and tab included) is cell data,     *)
(* each doubled quote gives one quote byte and the enclosing quotes are    *)
(* not part of the cell; a row whose last comma is followed directly by    *)
(* the line terminator or the end of the stream ends with an empty cell.   *)
C9_QuotedFieldParsing ==
  (phase = "read" /\ Len(rrows) >= 1 /\ Len(src.data) >= 2 /\ src.data[1] = 34) =>
    /\ \A x \in CellContents :
         /\ \A rest \in {<<>>, <<10>>, <<13, 10>>} :
              QuotedThen(src.data, x, rest) => rrows[1] = <<x>>
         /\ \A rest \in {<<44>>, <<44, 10>>} :
              QuotedThen(src.data, x, rest) => rrows[1] = <<x, <<>>>>
         /\ \A y \in {<<97>>, <<32, 97>>} :
              QuotedThen(src.data, x, <<44>> \o y) => rrows[1] = <<x, <<97>>>>
    /\ src.data = QuoteSpecialCases => rrows[1] = QuoteSpecialCasesRow

C9_Witness ==
  /\ phase = "read"
  /\ src.data = QuoteSpecialCases
  /\ src.chunk = 1
  /\ rrows = <<QuoteSpecialCasesRow>>
  /\ rres = NoErr

C9_WitnessDoubled ==
  /\ phase = "read"
  /\ src.data = <<34, 34, 34, 34>>
  /\ rrows = << << <<34>> >> >>

(* An input that is a run of unquoted cells, each followed by a comma, and *)
(* then an opening quote that is never closed.                             *)
OpenQuoteAt(data, k) ==
  /\ k \in 1..Len(data)
  /\ data[k] = 34
  /\ k > 1 => data[k - 1] = 44
  /\ \A i \in 1..(k - 1) : data[i] \in {97, 44}
  /\ \A i \in (k + 1)..Len(data) : data[i] # 34

(* C10: when the end of the stream is reached while a quoted field is      *)
(* still open (cell state InQuote), the Scan or Read in progress fails     *)
(* with the unexpected-EOF error and returns no row; the bytes of the      *)
(* unfinished cell are not a cell of the row: no boundary is recorded for  *)
(* it.                                                                     *)
C10_EofInQuoteStep ==
  (phase = "read" /\ ~r.fileDone /\ r'.fileDone /\ rs' = cellStateInQuote)
    => (rres' = ErrUnexpectedEOF /\ rrows' = rrows)

C10_OpenCellHidden ==
  \A k \in 1..Len(src.data) :
    (phase = "read" /\ OpenQuoteAt(src.data, k) /\ rres # NoErr)
      => /\ rrows = <<>>
         /\ ReaderLen(r) = CommaCount(SubSeq(src.data, 1, k - 1))
         /\ Flat(Cells(r)) = SelectSeq(SubSeq(src.data, 1, k - 1), LAMBDA c : c # 44)

C10_UnterminatedQuote == [][C10_EofInQuoteStep]_vars /\ []C10_OpenCellHidden

C10_Witness ==
  /\ phase = "read"
  /\ src.data = <<34>>
  /\ rres = ErrUnexpectedEOF
  /\ rrows = <<>>
  /\ ReaderLen(r) = 0

C10_WitnessSecondCell ==
  /\ phase = "read"
  /\ src.data = <<97, 44, 34, 98>>
  /\ src.chunk = 1
  /\ rres = ErrUnexpectedEOF
  /\ Cells(r) = << <<97>> >>
  /\ r.parsed = <<97, 98>>

(***************************************************************************)
(* Unquoted rows, as the claims describe them.                             *)
(***************************************************************************)
(* The cells of s when every comma of s separates two cells. *)
RECURSIVE SplitCells(_)
SplitCells(s) ==
  IF \A i \in 1..Len(s) : s[i] # 44 THEN <<s>>
  ELSE LET i == CHOOSE j \in 1..Len(s) : s[j] = 44 /\ \A m \in 1..(j - 1) : s[m] # 44
       IN  <<SubSeq(s, 1, i - 1)>> \o SplitCells(SubSeq(s, i + 1, Len(s)))

(* s consists of letters and commas only. *)
IsPlainRow(s) == \A i \in 1..Len(s) : s[i] \in {97, 44}

(* data[i .. i+k-1] is a maximal run of k CRs and data[i+k] is a LF. *)
CrRunThenLf(data, i, k) ==
  /\ k >= 1
  /\ i >= 1
  /\ i + k <= Len(data)
  /\ \A j \in i..(i + k - 1) : data[j] = 13
  /\ data[i + k] = 10
  /\ i > 1 => data[i - 1] # 13

CrBytes(n) == [j \in 1..n |-> 13]

CrCrLfInput == <<97, 44, 32, 98, 13, 13, 10, 99, 44, 100>>

CrCrLfRows == << << <<97>>, <<98, 13>> >>, << <<99>>, <<100>> >> >>

(* C11: outside quotes a CR directly followed by LF ends the cell and the  *)
(* row and is not part of the cell; of a run of k >= 2 CRs followed by LF  *)
(* only the last CR belongs to the terminator, the k-1 CRs before it are   *)
(* data of the cell; the next row starts after the LF.                     *)
C11_CrLfTermination ==
  (phase = "read" /\ binds = 0 /\ Len(rrows) >= 1) =>
    /\ \A i \in 1..Len(src.data), k \in 1..Len(src.data) :
         (CrRunThenLf(src.data, i, k) /\ IsPlainRow(SubSeq(src.data, 1, i - 1)))
           => /\ rrows[1] = SplitCells(SubSeq(src.data, 1, i - 1) \o CrBytes(k - 1))
              /\ (Len(rrows) >= 2
                    /\ IsPlainRow(SubSeq(src.data, i + k + 1, Len(src.data))))
                   => rrows[2] = SplitCells(SubSeq(src.data, i + k + 1, Len(src.data)))
    /\ src.data = CrCrLfInput => rrows = SubSeq(CrCrLfRows, 1, Len(rrows))

C11_Witness ==
  /\ phase = "read"
  /\ src.data = CrCrLfInput
  /\ src.chunk = 1
  /\ rrows = CrCrLfRows

C11_WitnessCrLf ==
  /\ phase = "read"
  /\ src.data = <<97, 13, 10, 97>>
  /\ rrows = << << <<97>> >>, << <<97>> >> >>

(* data is P, a CR, the byte c and Q, with P and Q letters and commas. *)
LoneCrAt(data, i, c) ==
  /\ i >= 1
  /\ i + 1 <= Len(data)
  /\ data[i] = 13
  /\ data[i + 1] = c
  /\ IsPlainRow(SubSeq(data, 1, i - 1))
  /\ IsPlainRow(SubSeq(data, i + 2, Len(data)))

(* C12: outside quotes a CR followed by a byte other than LF does not end  *)
(* the row: the CR is data of the current cell; a comma after it ends the  *)
(* cell, a letter, space, tab or quote after it is appended after the CR   *)
(* and the cell goes on.  So such an input is one row, whose cells are the *)
(* bytes between its commas, CR and following byte included.               *)
C12_LoneCrIsData ==
  (phase = "read" /\ binds = 0 /\ Len(rrows) >= 1) =>
    /\ \A i \in 1..Len(src.data), c \in {44, 97, 32, 9, 34} :
         LoneCrAt(src.data, i, c)
           => /\ rrows[1] = SplitCells(src.data)
              /\ Len(rrows) = 1
    /\ src.data = <<98, 13, 34, 44, 100>>
         => rrows = << << <<98, 13, 34>>, <<100>> >> >>

C12_Witness ==
  /\ phase = "read"
  /\ src.data = <<98, 13, 34, 44, 100>>
  /\ src.chunk = 1
  /\ rrows = << << <<98, 13, 34>>, <<100>> >> >>
  /\ rres = EOF

C12_WitnessComma ==
  /\ phase = "read"
  /\ src.data = <<97, 13, 44, 97>>
  /\ rrows = << << <<97, 13>>, <<97>> >> >>
  /\ rres = EOF

(***************************************************************************)
(* Fields and the white space around them, as the claims describe them.    *)
(***************************************************************************)
(* The first index from q on at which data holds a byte of S, or           *)
(* Len(data) + 1 when there is none.                                       *)
FirstFrom(data, q, S) ==
  CHOOSE e \in q..(Len(data) + 1) :
    /\ e = Len(data) + 1 \/ data[e] \in S
    /\ \A j \in q..(e - 1) : data[j] \notin S

(* The first index from q on at which data holds a byte not in S. *)
FirstNotFrom(data, q, S) ==
  CHOOSE e \in q..(Len(data) + 1) :
    /\ e = Len(data) + 1 \/ data[e] \notin S
    /\ \A j \in q..(e - 1) : data[j] \in S

(* A field starts at p: at the start of the input or after a comma, only   *)
(* letters and commas before it.                                           *)
FieldStart(data, p) ==
  /\ p \in 1..Len(data)
  /\ IsPlainRow(SubSeq(data, 1, p - 1))
  /\ p > 1 => data[p - 1] = 44

(* Where the content of the field that starts at p begins. *)
ContentStart(data, p) == FirstNotFrom(data, p, {32, 9})

(* The field at p is unquoted: after the leading white space a letter,     *)
(* then letters, spaces and tabs up to the comma, the LF or the end.       *)
UnquotedField(data, p) ==
  LET q == ContentStart(data, p)
      e == FirstFrom(data, q, {44, 10})
  IN  /\ q <= Len(data)
      /\ data[q] = 97
      /\ \A j \in q..(e - 1) : data[j] \in {97, 32, 9}

(* Its bytes from the first letter up to the comma, the LF or the end. *)
UnquotedText(data, p) ==
  LET q == ContentStart(data, p)
  IN  SubSeq(data, q, FirstFrom(data, q, {44, 10}) - 1)

(* s without the white space at its end. *)
RECURSIVE TrimRight(_)
TrimRight(s) ==
  IF Len(s) > 0 /\ s[Len(s)] \in {32, 9} THEN TrimRight(SubSeq(s, 1, Len(s) - 1))
  ELSE s

(* The field at p is quoted: after the leading white space a quote, bytes  *)
(* other than a quote, a closing quote, then white space up to the comma,  *)
(* the LF or the end.                                                      *)
QuotedField(data, p) ==
  LET q == ContentStart(data, p)
  IN  /\ q <= Len(data)
      /\ data[q] = 34
      /\ LET cl == FirstFrom(data, q + 1, {34})
             e  == FirstNotFrom(data, cl + 1, {32, 9})
         IN  /\ cl <= Len(data)
             /\ e = Len(data) + 1 \/ data[e] \in {44, 10}

(* The bytes between its quotes. *)
QuotedText(data, p) ==
  LET q == ContentStart(data, p)
  IN  SubSeq(data, q + 1, FirstFrom(data, q + 1, {34}) - 1)

(* The index of the cell that the field starting at p becomes. *)
CellIndex(data, p) == CommaCount(SubSeq(data, 1, p - 1)) + 1

WhiteSpaceInput ==
  <<32, 32, 34, 98, 99, 34, 32, 32, 44, 32, 97, 32, 122, 44, 32, 100>>

WhiteSpaceRows == << << <<98, 99>>, <<97, 32, 122>>, <<100>> >> >>

(* C13: the white space before a field's content and the white             *)
(* space after it, up to the separator or the line terminator, is not part *)
(* of the cell, for unquoted fields as well as for quoted ones.            *)
C13_TrimmedBothSides ==
  (phase = "read" /\ binds = 0 /\ Len(rrows) >= 1) =>
    \A p \in 1..Len(src.data) :
      FieldStart(src.data, p) =>
        /\ UnquotedField(src.data, p)
             => rrows[1][CellIndex(src.data, p)] = TrimRight(UnquotedText(src.data, p))
        /\ QuotedField(src.data, p)
             => rrows[1][CellIndex(src.data, p)] = QuotedText(src.data, p)

(* What the Reader does with white space (it holds of the code): space    *)
(* and tab before a field's content are not part of the cell, for          *)
(* unquoted and quoted fields; space and tab after the                     *)
(* closing quote of a quoted field are not part of the cell; white space   *)
(* inside quotes is kept; in an unquoted field every space and tab after   *)
(* the first content byte is kept, between two content bytes and also      *)
(* after the last one, up to the separator or the line terminator.         *)
WhitespaceAsScanned ==
  (phase = "read" /\ binds = 0 /\ Len(rrows) >= 1) =>
    /\ \A p \in 1..Len(src.data) :
         FieldStart(src.data, p) =>
           /\ UnquotedField(src.data, p)
                => rrows[1][CellIndex(src.data, p)] = UnquotedText(src.data, p)
           /\ QuotedField(src.data, p)
                => rrows[1][CellIndex(src.data, p)] = QuotedText(src.data, p)
    /\ src.data = WhiteSpaceInput => rrows = WhiteSpaceRows

C13_TrailingSpaceKept ==
  /\ phase = "read"
  /\ src.data = <<32, 97, 9, 44>>
  /\ src.chunk = 1
  /\ rrows = << << <<97, 9>>, <<>> >> >>

WhitespaceAsScanned_Witness ==
  /\ phase = "read"
  /\ src.data = WhiteSpaceInput
  /\ rrows = WhiteSpaceRows

(***************************************************************************)
(* Malformed quoting.                                                      *)
(***************************************************************************)
(* No Scan, Read or Bytes call has been made on r yet. *)
BeforeFirstCall == phase = "read" /\ binds = 0 /\ r = NewReader

(* Where the quoted field that starts at p is closed: the first quote      *)
(* after the opening one.                                                  *)
ClosingQuote(data, p) == FirstFrom(data, ContentStart(data, p) + 1, {34})

(* The field at p opens with a quote and is closed by a single quote. *)
ClosedQuote(data, p) ==
  /\ FieldStart(data, p)
  /\ ContentStart(data, p) <= Len(data)
  /\ data[ContentStart(data, p)] = 34
  /\ ClosingQuote(data, p) <= Len(data)

(* C14: in the first row, a byte other than quote, comma, space, tab, CR   *)
(* and LF right after the closing quote of a quoted field makes the call   *)
(* fail with the "unexpected char after terminating quote" error for that  *)
(* byte; a byte other than comma, space, tab, CR and LF (a quote too)      *)
(* after white space that follows the closing quote makes it fail with the *)
(* "unexpected char after quoted cell" error; the call returns no row.     *)
C14_Step ==
  BeforeFirstCall =>
    \A p \in 1..Len(src.data) :
      ClosedQuote(src.data, p) =>
        LET cl == ClosingQuote(src.data, p)
            e  == FirstNotFrom(src.data, cl + 1, {32, 9})
        IN  /\ (cl + 1 <= Len(src.data)
                  /\ src.data[cl + 1] \notin {34, 44, 32, 9, 13, 10})
                 => /\ rres' = [kind |-> "unexpected char after terminating quote",
                                c |-> src.data[cl + 1]]
                    /\ rrows' = <<>>
            /\ (e > cl + 1 /\ e <= Len(src.data)
                  /\ src.data[e] \notin {44, 32, 9, 13, 10})
                 => /\ rres' = [kind |-> "unexpected char after quoted cell",
                                c |-> src.data[e]]
                    /\ rrows' = <<>>

C14_MalformedQuoting == [][C14_Step]_vars

C14_Witness ==
  /\ phase = "read"
  /\ src.data = <<34, 97, 34, 32, 34>>
  /\ src.chunk = 1
  /\ rres = [kind |-> "unexpected char after quoted cell", c |-> 34]
  /\ rrows = <<>>

C14_WitnessAfterQuote ==
  /\ phase = "read"
  /\ src.data = <<34, 97, 34, 97>>
  /\ rres = [kind |-> "unexpected char after terminating quote", c |-> 97]
  /\ rrows = <<>>

(***************************************************************************)
(* After a syntax error.                                                   *)
(***************************************************************************)
(* e is the offending byte of the first row: the byte that follows the     *)
(* closing quote of a field, or the white space after it, and may not.     *)
MalformedAt(data, e) ==
  \E p \in 1..Len(data) :
    /\ ClosedQuote(data, p)
    /\ e <= Len(data)
    /\ LET cl == ClosingQuote(data, p)
       IN  \/ e = cl + 1 /\ data[e] \notin {34, 44, 32, 9, 13, 10}
           \/ /\ e > cl + 1
              /\ e = FirstNotFrom(data, cl + 1, {32, 9})
              /\ data[e] \notin {44, 32, 9, 13, 10}

(* The first call failed with a malformed-quoting error and no call has    *)
(* been made since.                                                        *)
AfterMalformed ==
  /\ phase = "read"
  /\ binds = 0
  /\ rrows = <<>>
  /\ rres.kind \in {"unexpected char after terminating quote",
                    "unexpected char after quoted cell"}

(* The first call failed with the unexpected-EOF error. *)
AfterUnexpectedEOF ==
  /\ phase = "read"
  /\ binds = 0
  /\ rrows = <<>>
  /\ rres.kind = "unexpected EOF"

(* The call after a malformed-quoting error tokenizes what follows the     *)
(* offending byte and nothing else: when that is letters and commas, the   *)
(* call returns them as a row and the accumulator holds just these letters.*)
CleanAfterMalformed ==
  AfterMalformed =>
    \A e \in 1..Len(src.data) :
      LET rest == SubSeq(src.data, e + 1, Len(src.data))
      IN  (MalformedAt(src.data, e) /\ IsPlainRow(rest))
            => /\ rres' = [kind |-> "nil", c |-> 0]
               /\ rrows' = <<SplitCells(rest)>>
               /\ r'.parsed = SelectSeq(rest, LAMBDA c : c # 44)
               /\ r'.cellOffsets[1] = 0
               /\ Len(r'.cellOffsets) = Len(SplitCells(rest)) + 1

(* C15: after a call fails with a syntax error, malformed quoting or       *)
(* unexpected EOF, the next call starts with an empty accumulator and a    *)
(* boundary table holding only offset 0 and tokenizes from the byte after  *)
(* the offending byte, so that no byte of the failed row is in the         *)
(* accumulator after it.                                                   *)
C15_CleanAfterAnySyntaxError ==
  [][ /\ CleanAfterMalformed
      /\ AfterUnexpectedEOF => (r'.parsed = <<>> /\ r'.cellOffsets[1] = 0) ]_vars

(* C15, amended: after a call fails with a malformed-quoting error, the    *)
(* next call starts with an empty accumulator and a boundary table holding *)
(* only offset 0 and tokenizes from the byte after the offending byte, so  *)
(* no byte of the failed row appears in a later row.  After a call fails   *)
(* with the unexpected-EOF error the stream is complete: the next call     *)
(* returns io.EOF, returns no row, and leaves the accumulator and the      *)
(* boundary table as the failed call left them.                            *)
C15_ErrorLocality ==
  [][ /\ CleanAfterMalformed
      /\ AfterUnexpectedEOF
           => /\ rres' = [kind |-> "EOF", c |-> 0]
              /\ rrows' = rrows
              /\ r'.parsed = r.parsed
              /\ r'.cellOffsets = r.cellOffsets ]_vars

C15_Witness ==
  /\ phase = "read"
  /\ src.data = <<34, 34, 97, 97>>
  /\ src.chunk = 1
  /\ rrows = << << <<97>> >> >>
  /\ r.parsed = <<97>>
  /\ r.cellOffsets = <<0, 1>>

C15_WitnessEOF ==
  /\ phase = "read"
  /\ src.data = <<34, 97>>
  /\ rres = [kind |-> "EOF", c |-> 0]
  /\ rrows = <<>>
  /\ r.parsed = <<97>>

(***************************************************************************)
(* End of stream.                                                          *)
(***************************************************************************)
(* The step is a call of Scan, Read or Bytes (not SetInput). *)
IsCall == phase = "read" /\ binds' = binds

(* C16: once the reader has seen the end of the stream (fileDone is set,   *)
(* also when that happened inside an open quote), every later Scan, Read   *)
(* or Bytes returns io.EOF, reads nothing from the source and leaves the   *)
(* accumulator, the boundary table and Len() as they were, until SetInput  *)
(* is called; a call that returned io.EOF or the unexpected-EOF error has  *)
(* left fileDone set; rowDone is true on return from every successful      *)
(* call.                                                                   *)
C16_Step ==
  /\ (IsCall /\ r.fileDone)
       => /\ rres' = [kind |-> "EOF", c |-> 0]
          /\ src' = src
          /\ r'.parsed = r.parsed
          /\ r'.cellOffsets = r.cellOffsets
          /\ Len(r'.cellOffsets) - 1 = Len(r.cellOffsets) - 1
          /\ rrows' = rrows
          /\ r'.fileDone
  /\ (IsCall /\ rres'.kind \in {"EOF", "unexpected EOF"}) => r'.fileDone
  /\ (IsCall /\ rres'.kind = "nil") => r'.rowDone
  /\ (phase = "read" /\ binds' # binds) => ~r'.fileDone

C16_StickyEndOfStream == [][C16_Step]_vars

C16_Witness ==
  /\ phase = "read"
  /\ binds = 0
  /\ src.data = <<97, 10, 97>>
  /\ rres = [kind |-> "EOF", c |-> 0]
  /\ r.fileDone
  /\ r.parsed = <<97>>
  /\ r.cellOffsets = <<0, 1>>
  /\ Len(rrows) = 2

(* After SetInput the reader reads again. *)
C16_WitnessRebound ==
  /\ phase = "read"
  /\ binds = 1
  /\ ~r.fileDone
  /\ src.data = <<97, 44, 97, 10, 97>>
  /\ src.off > 0
  /\ Len(rrows) = 1

(***************************************************************************)
(* SetInput.                                                               *)
(***************************************************************************)
(* SetInput was called, and a Scan, Read or Bytes call was made after it. *)
CalledSinceSetInput ==
  phase = "read" /\ binds = 1 /\ (rres.kind # "nil" \/ Len(rrows) > 0)

(* C17: after SetInput(src), whatever state the reader was in, the calls   *)
(* Scan/Read/Bytes return what they return on a reader made with NewReader *)
(* over src (the same errors, the same rows), and after each call the      *)
(* accessors see the same row (the same Len(), the same cells); no byte of *)
(* the previous source is tokenized.                                       *)
C17_Rebinding ==
  (phase = "read" /\ binds = 1) =>
    /\ rres = fresh.res
    /\ rrows = fresh.rows
    /\ CalledSinceSetInput
         => /\ Len(r.cellOffsets) - 1 = Len(fresh.r.cellOffsets) - 1
            /\ Cells(r) = Cells(fresh.r)
            /\ r.parsed = fresh.r.parsed

(***************************************************************************)
(* The read buffer.                                                        *)
(***************************************************************************)
(* The number of bytes the last Read that delivered bytes delivered, for a *)
(* source that has delivered off bytes, at most chunk per Read.            *)
LastDelivered(off, chunk) == off - chunk * ((off - 1) \div chunk)

C18_Bounds ==
  /\ 0 <= r.pos
  /\ r.pos <= r.bufLen
  /\ r.bufLen <= 4096
  /\ Len(r.bufStore) <= 4096

(* A call during which the source delivered bytes: the last delivery is at *)
(* the start of the buffer's storage, the buffer is as long as that        *)
(* delivery (as long as its capacity when a later Read of the call         *)
(* delivered nothing and returned io.EOF or an error), and the position    *)
(* counts from the start of that delivery.                                 *)
C18_Refilled ==
  (IsCall /\ src'.off > src.off) =>
    LET n == LastDelivered(src'.off, src'.chunk)
    IN  /\ n <= 4096
        /\ r'.bufLen = (IF r'.fileDone \/ rres'.kind = "source error" THEN 4096 ELSE n)
        /\ r'.pos <= n
        /\ SubSeq(r'.bufStore, 1, n) = SubSeq(src'.data, src'.off - n + 1, src'.off)

(* C18: in every reachable state 0 <= position <= length <= capacity of    *)
(* the read buffer, the capacity stays 4096 (the buffer is only resliced   *)
(* within its storage), and every refill asks the source for at most       *)
(* capacity bytes into the same storage and sets position to 0.            *)
C18_ReadBuffer == []C18_Bounds /\ [][C18_Refilled]_vars

C18_Witness ==
  /\ phase = "read"
  /\ binds = 1
  /\ src.data = <<97, 44, 97, 10, 97>>
  /\ src.chunk = 1
  /\ src.off = 4
  /\ r.pos = 1
  /\ r.bufLen = 1
  /\ r.bufStore[1] = 10

C18_WitnessFull ==
  /\ phase = "read"
  /\ rres.kind = "source error"
  /\ r.bufLen = 4096
  /\ r.pos = 4096

(***************************************************************************)
(* Errors of the source.                                                   *)
(***************************************************************************)
(* C19: when a Read on the source returns an error other than io.EOF, the  *)
(* Scan, Read or Bytes call in progress returns that error; a call does    *)
(* not return an error of this kind that the source did not report.        *)
C19_Step ==
  /\ (IsCall /\ ~src.erred /\ src'.erred) => rres' = [kind |-> "source error", c |-> 0]
  /\ (IsCall /\ rres'.kind = "source error") => src'.erred

C19_SourceErrorPropagation == [][C19_Step]_vars

(***************************************************************************)
(* The cell-boundary table.                                                *)
(***************************************************************************)
(* A Scan has got past its fileDone check on this reader. *)
HasScanned == phase = "read" /\ r.cellOffsets # <<>>

(* The last call succeeded. *)
LastCallSucceeded == phase = "read" /\ rres.kind = "nil" /\ Len(rrows) >= 1

(* C20: after every Scan that got past the stream-complete check, whether  *)
(* it succeeded or failed, the boundary table starts with offset 0, its    *)
(* offsets do not decrease and none exceeds the length of the accumulator, *)
(* and the table has Len() + 1 entries; after a successful Scan the last   *)
(* offset is the length of the accumulator, so the accumulator is the      *)
(* concatenation of the row's cells and cell i is the accumulator from     *)
(* offset i up to offset i + 1.                                            *)
C20_BoundaryTable ==
  /\ HasScanned =>
       /\ r.cellOffsets[1] = 0
       /\ \A i \in 1..(Len(r.cellOffsets) - 1) : r.cellOffsets[i] <= r.cellOffsets[i + 1]
       /\ \A i \in 1..Len(r.cellOffsets) : r.cellOffsets[i] <= Len(r.parsed)
       /\ Len(r.cellOffsets) = ReaderLen(r) + 1
       /\ ReaderLen(r) >= 0
  /\ LastCallSucceeded =>
       LET row == rrows[Len(rrows)]
       IN  /\ r.cellOffsets[Len(r.cellOffsets)] = Len(r.parsed)
           /\ Len(row) = ReaderLen(r)
           /\ Flat(row) = r.parsed
           /\ \A i \in 1..Len(row) :
                row[i] = [j \in 1..(r.cellOffsets[i + 1] - r.cellOffsets[i]) |->
                            r.parsed[r.cellOffsets[i] + j]]

C20_Witness ==
  /\ phase = "read"
  /\ src.data = <<44, 44, 34, 34, 44, 34, 34, 44, 44, 10>>
  /\ Len(rrows) = 1
  /\ r.cellOffsets = <<0, 0, 0, 0, 0, 0, 0>>
  /\ r.parsed = <<>>

C20_WitnessCells ==
  /\ phase = "read"
  /\ src.data = <<97, 44, 97, 97>>
  /\ r.cellOffsets = <<0, 1, 3>>
  /\ rres.kind = "nil"

C20_WitnessFailed ==
  /\ phase = "read"
  /\ src.data = <<97, 44, 34, 98>>
  /\ rres.kind = "unexpected EOF"
  /\ r.cellOffsets = <<0, 1>>
  /\ r.parsed = <<97, 98>>

(***************************************************************************)
(* C24  String and Bytes append the same bytes.                            *)
(***************************************************************************)
LastWasStringOrBytes == last.op \in {"String", "Bytes"}

(* C24: every String or Bytes call, for every field and from every Writer  *)
(* state reached, left the Writer (line buffer and cell counter) that the  *)
(* other of the two would have left, and the two quoting decisions for the *)
(* field agree.                                                            *)
C24_TextBytesEquivalence ==
  LastWasStringOrBytes =>
    /\ fieldNeedsQuotes(last.text) = byteFieldNeedsQuotes(last.text)
    /\ w = String(last.before, last.text)
    /\ w = Bytes(last.before, last.text)

(* Bytes of the Postgres terminator as the second value of a line. *)
C24_Witness ==
  /\ last.op = "Bytes"
  /\ last.text = <<Backslash, Dot>>
  /\ last.before.count = 1
  /\ w.b = (last.before.b \o <<Comma, Quote, Backslash, Dot, Quote>>)

(* String of a field that starts with a two-byte white-space rune. *)
C24_WitnessRune ==
  /\ last.op = "String"
  /\ last.text = <<NbspLead, NbspTail, LetterA>>
  /\ w.b = (last.before.b \o <<Quote, NbspLead, NbspTail, LetterA, Quote>>)

(***************************************************************************)
(* C25  Skip emits an empty field.                                         *)
(***************************************************************************)
(* The value before the last one of the current line was a Skip. *)
AfterSkip == Len(cur) >= 2 /\ cur[Len(cur) - 1].op = "Skip"

(* "1", "abc" *)
Text1 == <<Digit0 + 1>>

TextAbc == <<LetterA, LetterB, 99>>

(* C25: in every Writer state Skip does what String("") does; a Skip just  *)
(* made appended the separator that was due and nothing else and counted   *)
(* one value; the value appended after a Skip starts with a comma, also    *)
(* when the Skip was the first value of the line.                          *)
C25_SkipEmitsEmptyField ==
  /\ Skip(w) = String(w, <<>>)
  /\ last.op = "Skip" =>
       /\ w = String(last.before, <<>>)
       /\ w.count = last.before.count + 1
       /\ w.b = (IF last.before.count = 0 THEN last.before.b
                 ELSE Append(last.before.b, Comma))
  /\ AfterSkip => w.b = ((last.before.b \o <<Comma>>) \o last.text)
  /\ Bytes(Skip(Int64(NewWriter, 1)), TextAbc).b = ((Text1 \o <<Comma, Comma>>) \o TextAbc)
  /\ String(Skip(NewWriter), <<LetterA>>).b = <<Comma, LetterA>>

(* Skip, a: the line buffer holds ",a". *)
C25_Witness ==
  /\ Len(cur) = 2
  /\ cur[1].op = "Skip"
  /\ cur[2].op = "String"
  /\ w.b = <<Comma, LetterA>>

(* A Skip as the second value of a line. *)
C25_WitnessSecond ==
  /\ last.op = "Skip"
  /\ last.before.count = 1
  /\ w.count = 2

(***************************************************************************)
(* C29  Every successful Scan yields at least one cell.                    *)
(***************************************************************************)
EndsWithLF(data) == Len(data) > 0 /\ data[Len(data)] = 10

(* ,,"","",, and LF *)
SixEmptyInput == <<44, 44, 34, 34, 44, 34, 34, 44, 44, 10>>

SixEmptyRows == << <<<<>>, <<>>, <<>>, <<>>, <<>>, <<>>>>, EmptyRow >>

(* Every successful call appends one row, and that row has a cell; the     *)
(* call that finds the stream at its end right after a final LF that       *)
(* was read outside a quoted field follows the successful call that the LF *)
(* ended, and returns a row of one empty cell.                             *)
C29_Step ==
  /\ (IsCall /\ rres'.kind = "nil")
       => /\ ReaderLen(r') >= 1
          /\ Len(rrows') = Len(rrows) + 1
          /\ Len(rrows'[Len(rrows')]) >= 1
  /\ (IsCall /\ ~r.fileDone /\ r'.fileDone /\ EndsWithLF(src.data)
        /\ rs' # cellStateInQuote)
       => /\ rres.kind = "nil"
          /\ Len(rrows) >= 1
          /\ rres'.kind = "nil"
          /\ ReaderLen(r') = 1
          /\ rrows' = Append(rrows, EmptyRow)

(* Once io.EOF was returned: the empty stream gave one row of one empty    *)
(* cell, and the input of TestRead's case 'empty' a row of six empty cells *)
(* and a row of one.                                                       *)
C29_AtEOF ==
  (phase = "read" /\ rres.kind = "EOF")
    => /\ src.data = <<>> => rrows = <<EmptyRow>>
       /\ src.data = SixEmptyInput => rrows = SixEmptyRows
       /\ \A i \in 1..Len(rrows) : Len(rrows[i]) >= 1

(* C29: every successful Scan yields a row with at least one cell; an      *)
(* empty stream yields exactly one row of one empty cell before io.EOF; a  *)
(* stream whose last byte is an unquoted LF yields, after the row that LF  *)
(* terminates, one more row of a single empty cell before io.EOF.          *)
C29_AtLeastOneCell == []C29_AtEOF /\ [][C29_Step]_vars

(* The empty stream, read to io.EOF. *)
C29_Witness ==
  /\ phase = "read"
  /\ src.data = <<>>
  /\ rres.kind = "EOF"
  /\ rrows = <<EmptyRow>>

(* TestRead 'empty', read to io.EOF. *)
C29_WitnessSixEmpty ==
  /\ phase = "read"
  /\ src.data = SixEmptyInput
  /\ rres.kind = "EOF"
  /\ rrows = SixEmptyRows

(***************************************************************************)
(* C30  End of stream outside an open quote ends the cell and the row.     *)
(***************************************************************************)
(* data is p, or p LF q, with p and q rows of unquoted cells and q not     *)
(* empty: the rows of data, the last without a line terminator.            *)
PlainRowsOf(data) ==
  IF IsPlainRow(data) THEN <<SplitCells(data)>>
  ELSE LET i == CHOOSE j \in 1..Len(data) : data[j] = 10
       IN  <<SplitCells(SubSeq(data, 1, i - 1)),
             SplitCells(SubSeq(data, i + 1, Len(data)))>>

LastRowUnterminated(data) ==
  /\ Len(data) > 0
  /\ \/ IsPlainRow(data)
     \/ \E i \in 1..(Len(data) - 1) :
          /\ data[i] = 10
          /\ IsPlainRow(SubSeq(data, 1, i - 1))
          /\ IsPlainRow(SubSeq(data, i + 1, Len(data)))

(* The call that finds the source exhausted in a cell state other than     *)
(* InQuote succeeds, sets fileDone and rowDone and returns the cells       *)
(* accumulated, the last one ending where the accumulator ends; a call on  *)
(* a reader whose fileDone is set returns io.EOF.                          *)
C30_Step ==
  /\ (IsCall /\ ~r.fileDone /\ r'.fileDone /\ rs' # cellStateInQuote)
       => /\ rres'.kind = "nil"
          /\ r'.rowDone
          /\ ReaderLen(r') >= 1
          /\ r'.cellOffsets[Len(r'.cellOffsets)] = Len(r'.parsed)
          /\ rrows' = Append(rrows, Cells(r'))
          /\ Flat(Cells(r')) = r'.parsed
  /\ (IsCall /\ r.fileDone) => rres'.kind = "EOF"

(* Rows of unquoted cells whose last row has no line terminator are all    *)
(* returned, the last one with all its cells.                              *)
C30_LastRowComplete ==
  (phase = "read" /\ rres.kind = "EOF" /\ LastRowUnterminated(src.data))
    => rrows = PlainRowsOf(src.data)

(* C30: when the source is exhausted in any state other than InQuote, Scan *)
(* returns success with all cells accumulated so far, sets stream-complete,*)
(* and the next Scan returns io.EOF; a last row without a trailing line    *)
(* terminator is returned complete.                                        *)
C30_EndOfStreamEndsRow == []C30_LastRowComplete /\ [][C30_Step]_vars

(* a LF a, read to io.EOF. *)
C30_Witness ==
  /\ phase = "read"
  /\ src.data = <<97, 10, 97, 44>>
  /\ rres.kind = "EOF"
  /\ rrows = << << <<97>> >>, << <<97>>, <<>> >> >>

(* a, : the last cell is empty. *)
C30_WitnessEmptyLast ==
  /\ phase = "read"
  /\ src.data = <<97, 44>>
  /\ r.fileDone
  /\ rrows = << << <<97>>, <<>> >> >>

(***************************************************************************)
(* C27  Chunking independence.                                             *)
(***************************************************************************)
(* The number of bytes the state machine of reader rd over source sc has   *)
(* been fed: what the source delivered less what waits in r.buf.  Once     *)
(* fileDone is set nothing waits (the Read that set it was made with the   *)
(* buffer used up).                                                        *)
Consumed(rd, sc) ==
  IF rd.fileDone THEN sc.off ELSE sc.off - (rd.bufLen - rd.pos)

(* A call was made on both Readers. *)
BothCalled == phase = "read" /\ fresh.on /\ HasScanned

(* C27: whatever the chunk size of the source, with or without Reads that  *)
(* return (0, nil) and with or without io.EOF returned together with the   *)
(* last bytes, every call returns what it returns when the same bytes come *)
(* in one Read: the same error or nil, the same rows so far, the same      *)
(* cells, accumulator and completion flags, and the same number of bytes   *)
(* consumed.                                                               *)
C27_ChunkingIndependence ==
  BothCalled =>
    /\ rres = fresh.res
    /\ rrows = fresh.rows
    /\ r.parsed = fresh.r.parsed
    /\ r.cellOffsets = fresh.r.cellOffsets
    /\ r.rowDone = fresh.r.rowDone
    /\ r.fileDone = fresh.r.fileDone
    /\ r.srow = fresh.r.srow
    /\ r.row = fresh.r.row
    /\ Consumed(r, src) = Consumed(fresh.r, fresh.src)

(* A split between the two quotes of an escaped quote, with idle Reads and *)
(* io.EOF arriving with the last byte.                                     *)
C27_Witness ==
  /\ phase = "read"
  /\ src.data = <<34, 97, 34, 34, 97, 34, 44, 97>>
  /\ src.chunk = 3
  /\ src.idle = 1
  /\ src.end = "eofWithData"
  /\ rres.kind = "EOF"
  /\ rrows = << << <<97, 34, 97>>, <<97>> >> >>

(* A split between CR and LF. *)
C27_WitnessCrLf ==
  /\ phase = "read"
  /\ src.data = <<97, 13, 10, 97>>
  /\ src.chunk = 2
  /\ rres.kind = "EOF"
  /\ rrows = << << <<97>> >>, << <<97>> >> >>

(***************************************************************************)
(* C28  Termination and progress.                                          *)
(***************************************************************************)
(* A call on a reader whose fileDone is not set consumes at least one byte *)
(* or sets fileDone, and never un-consumes; a call on a reader whose       *)
(* fileDone is set returns io.EOF.                                         *)
C28_Step ==
  /\ (IsCall /\ ~r.fileDone)
       => /\ Consumed(r', src') >= Consumed(r, src)
          /\ Consumed(r', src') > Consumed(r, src) \/ r'.fileDone
          /\ Consumed(r', src') <= Len(src.data)
  /\ (IsCall /\ r.fileDone) => rres'.kind = "EOF"

(* In every state reached, a Scan on a reader whose fileDone is not set    *)
(* would consume at least one byte or set fileDone, and so change the      *)
(* state: until io.EOF was returned a call is never without effect.        *)
C28_CallProgresses ==
  /\ (phase = "read" /\ ~r.fileDone)
       => \/ Consumed(Scan(r, src).r, Scan(r, src).src) > Consumed(r, src)
          \/ Scan(r, src).r.fileDone
  /\ (phase = "read" /\ r.fileDone /\ rres.kind # "EOF")
       => Scan(r, src).err.kind = "EOF"

(* C28: over a source that delivers a finite byte string every call        *)
(* returns; a call that does not return io.EOF at entry consumes at least  *)
(* one byte or sets stream-complete; the caller who keeps calling gets     *)
(* io.EOF, and from then on only io.EOF.                                   *)
C28_TerminationAndProgress ==
  /\ []C28_CallProgresses
  /\ [][C28_Step]_vars
  /\ <>[]CallsDone

(* Two rows were scanned, byte by byte, before io.EOF. *)
C28_Witness ==
  /\ phase = "read"
  /\ src.data = <<97, 10, 97>>
  /\ src.chunk = 1
  /\ src.idle = 0
  /\ rres.kind = "EOF"
  /\ Len(rrows) = 2
  /\ Consumed(r, src) = 3



(***************************************************************************)
(* C21: a positional accessor Int(i), Float(i), Bool(i) or Text(i) called  *)
(* with i >= Len(), or on a Reader on which Scan, Read and Bytes have not  *)
(* been called yet, does not return: the Go run time panics (index or      *)
(* slice bounds out of range).  That is no conversion error, and no cell   *)
(* of this or of an earlier row is returned.                               *)
(***************************************************************************)
NoRowYet == phase = "read" /\ binds = 0 /\ rrows = <<>> /\ rres = NoErr

AccessorResults(rd, i) ==
  {ReaderInt(rd, i).res, ReaderFloat(rd, i).res, ReaderBool(rd, i).res,
   ReaderText(rd, i).res}

C21_WitnessNoRow ==
  /\ NoRowYet
  /\ src.data # <<>>
  /\ ret = Returns("Text", 0, Panic("Text"))

(***************************************************************************)
(* C26: Int(i), Float(i) and Bool(i) change nothing in the Reader or in    *)
(* the source, whether the cell converts or not: Len(), parsed, the        *)
(* boundary table, the read position and the completion flags stay as      *)
(* they were; a cell that does not convert gives a conversion error with   *)
(* the text of the cell.  After any accessor call, Text(i) included, every *)
(* accessor returns for every index what it returned before the call.      *)
(***************************************************************************)
TypedAccessors == {"Int", "Float", "Bool"}

C26_Step ==
  ret' # ret =>
    /\ ret'.op \in TypedAccessors =>
         /\ r' = r
         /\ src' = src
         /\ rrows' = rrows
         /\ rres' = rres
         /\ InTable(r, ret'.i) /\ ret'.res.kind # "value" =>
              /\ ret'.res.kind = "conversion error"
              /\ ret'.res.text = CellBytes(r, ret'.i)
    /\ ReaderLen(r') = ReaderLen(r)
    /\ r'.parsed = r.parsed
    /\ r'.cellOffsets = r.cellOffsets
    /\ r'.pos = r.pos
    /\ r'.rowDone = r.rowDone
    /\ r'.fileDone = r.fileDone
    /\ \A i \in Indexes :
         /\ ReaderInt(r', i).res = ReaderInt(r, i).res
         /\ ReaderFloat(r', i).res = ReaderFloat(r, i).res
         /\ ReaderBool(r', i).res = ReaderBool(r, i).res
         /\ ReaderText(r', i).res = ReaderText(r, i).res

C26_ConversionErrorsAreLocal == [][C26_Step]_vars

(* Int(0) on the row "1." returned the conversion error and the row is     *)
(* still there: Float(0) would return 1.                                   *)
C26_Witness ==
  /\ ret = Returns("Int", 0, ErrSyntax("Atoi", <<49, 46>>))
  /\ rres = NoErr
  /\ Cells(r) = << <<49, 46>> >>
  /\ ReaderFloat(r, 0).res = Value("ParseFloat", <<1, 1, 0, 0>>)

(***************************************************************************)
(* C22: in the sequential reader, when the row is done (the cell read      *)
(* before consumed a line feed or met the end of the stream), Int() and    *)
(* Float() return ErrRowDone and leave the reader and the source as they   *)
(* were: no byte is read.  It does not matter whether the cell before      *)
(* converted or not.  The row stays done, and ErrRowDone is what Int() and *)
(* Float() return, until Scan() is called.                                 *)
(***************************************************************************)
PullCalled == ret'.i # ret.i

C22_Step ==
  (PullCalled /\ pull.rowDone) =>
    /\ ret'.op \in {"Int", "Float"} =>
         /\ ret'.res = ErrRowDone
         /\ pull' = pull
         /\ src' = src
    /\ ret'.op # "Scan" => pull'.rowDone
    /\ ret'.op = "ScanLine" => ret'.res = BoolValue("ScanLine", FALSE)

C22_RowDone == [][C22_Step]_vars

(* TestReadInt: the third cell 13.2 met the end of the stream and did not  *)
(* convert; the fourth Int() returned ErrRowDone.                          *)
C22_Witness ==
  /\ src.data = <<49, 44, 32, 52, 50, 44, 32, 49, 51, 46, 50>>
  /\ ret.op = "Int"
  /\ ret.res = ErrRowDone
  /\ ret.before = "conversion error"
  /\ pull.cell = <<49, 51, 46, 50>>
  /\ pull.rowDone

(* The cell 1h ended with a line feed and did not convert; Float() then    *)
(* returned ErrRowDone and the next row 1,1 is still to be read.           *)
C22_WitnessLineFeed ==
  /\ src.data = <<49, 104, 10, 49, 44, 49>>
  /\ src.chunk = PullBufCap
  /\ ret.op = "Float"
  /\ ret.res = ErrRowDone
  /\ ret.before = "conversion error"
  /\ pull.pos = 3
  /\ pull.bufLen = 6
  /\ pull.rowDone
  /\ ~pull.fileDone

(***************************************************************************)
(* C23: the strings that Read and Text return keep their bytes over every  *)
(* later Scan, Read, Bytes, Text and SetInput.  The byte slices that       *)
(* Bytes returns and the []string that Read returns show what was          *)
(* returned as long as Scan, Read and Bytes are not called again; they     *)
(* are slices of r.parsed and r.srow, so a later call may change what      *)
(* they show (the witnesses).                                              *)
(***************************************************************************)
StringsKeep ==
  \A k \in 1..Len(held.strs) : ViewBytes(held.parr, held.strs[k]) = held.strsWant[k]

C23_ViewValidity ==
  held.on =>
    /\ StringsKeep
    /\ held.lastCells.valid => CellsContent(held, held.lastCells) = held.lastCells.want
    /\ held.lastRow.valid => RowContent(held, held.lastRow) = held.lastRow.want
    /\ held.firstCells.valid => CellsContent(held, held.firstCells) = held.firstCells.want
    /\ held.firstRow.valid => RowContent(held, held.firstRow) = held.firstRow.want

(* Read returned [a, a], the caller kept the []string and its strings;     *)
(* after the next Read the []string shows [b, b], the strings still a, a.  *)
C23_Witness ==
  /\ held.on
  /\ src.data = <<97, 44, 97, 10, 98, 44, 98>>
  /\ held.firstRow.has
  /\ held.firstRow.want = << <<97>>, <<97>> >>
  /\ RowContent(held, held.firstRow) = << <<98>>, <<98>> >>
  /\ held.strsWant = << <<97>>, <<97>> >>
  /\ StringsKeep

(* Bytes returned [a]; after the next call the byte slice shows b. *)
C23_WitnessBytes ==
  /\ held.on
  /\ held.firstCells.has
  /\ held.firstCells.want = << <<97>> >>
  /\ CellsContent(held, held.firstCells) = << <<98>> >>

(* The strings of the first source after SetInput and a row of the second  *)
(* source.                                                                 *)
C23_WitnessSetInput ==
  /\ held.on
  /\ binds = 1
  /\ Len(rrows) >= 1
  /\ held.strsWant = << <<97>> >>
  /\ held.parr.mem[1] = 98
  /\ StringsKeep

(* The row of nine b does not fit the array of r.parsed: the byte slice a  *)
(* of the row before is a slice of the array that was given up, which      *)
(* holds eight b.                                                          *)
C23_WitnessGrown ==
  /\ held.on
  /\ held.firstCells.has
  /\ held.firstCells.want = << <<97>> >>
  /\ held.parr.id = 3
  /\ Len(held.parr.mem) = 16
  /\ CellsContent(held, held.firstCells) = << <<98>> >>

(***************************************************************************)
(* White space before a cell's content and after a closing quote.          *)
(***************************************************************************)
(* A field of the first row starts at p: no quote, CR or LF before it, and *)
(* p is the start of the input or follows a comma.                         *)
FirstRowField(data, p) ==
  /\ p \in 1..Len(data)
  /\ \A j \in 1..(p - 1) : data[j] \notin {34, 13, 10}
  /\ p > 1 => data[p - 1] = 44

(* Where the white space after the closing quote of the field at p ends.   *)
AfterClosingQuote(data, p) ==
  FirstNotFrom(data, ClosingQuote(data, p) + 1, {32, 9})

WhiteSpaceCrLfInput == <<9, 32, 34, 97, 34, 32, 9, 13, 10>>

(* What row, the row returned by the first call on data, holds for the     *)
(* field that starts at p, with respect to the white space at its sides.   *)
WhitespaceSkipped(data, row, p) ==
  LET q    == ContentStart(data, p)
      cell == row[CellIndex(data, p)]
  IN  /\ (q = Len(data) + 1 \/ (q <= Len(data) /\ data[q] \in {44, 10}))
           => cell = <<>>
      /\ (q <= Len(data) /\ data[q] \notin {32, 9, 34, 44, 13, 10})
           => /\ cell # <<>>
              /\ cell[1] = data[q]
      /\ UnquotedField(data, p) => cell = UnquotedText(data, p)
      /\ ClosedQuote(data, p)
           => LET e    == AfterClosingQuote(data, p)
                  text == QuotedText(data, p)
              IN  /\ (e = Len(data) + 1 \/ data[e] \in {44, 10})
                       => cell = text
                  /\ (e <= Len(data) /\ data[e] = 13
                        /\ (e = Len(data) \/ data[e + 1] = 10))
                       => cell = text
                  /\ (e < Len(data) /\ data[e] = 13 /\ data[e + 1] # 10)
                       => /\ Len(cell) > Len(text)
                          /\ SubSeq(cell, 1, Len(text) + 1) = text \o <<13>>

C31_Step ==
  /\ (BeforeFirstCall /\ rres' = NoErr) =>
       \A p \in 1..Len(src.data) :
         FirstRowField(src.data, p)
           => WhitespaceSkipped(src.data, rrows'[1], p)
  /\ (phase = "read"
        /\ rres'.kind \in {ErrAfterQuote(0).kind, ErrAfterCell(0).kind})
       => rres'.c \notin {32, 9}

(* C31: in the row that the first call returns, for a field that starts at *)
(* p and whose content starts at q after a (possibly empty) run of spaces  *)
(* and tabs: when a comma, a LF or the end of the stream is at q the cell  *)
(* is empty; when a data byte is at q the cell starts with that byte, and  *)
(* is the field's text when only letters, spaces and tabs follow; when a   *)
(* quote is at q and a run of spaces and tabs follows the closing quote,   *)
(* the cell is the text between the quotes if the run ends at a comma, a   *)
(* LF, the end of the stream, a CR LF pair or a CR that ends the stream,   *)
(* and otherwise, the run ending at a CR, the cell continues with that CR: *)
(* no space or tab of either run is in the cell.  Space and tab are        *)
(* interchangeable in both runs, and no call fails with a malformed-       *)
(* quoting error for a space or a tab.                                     *)
C31_WhitespaceSkipped == [][C31_Step]_vars

(* The row "a" was read from TAB SPACE "a" SPACE TAB CR LF. *)
C31_Witness ==
  /\ phase = "read"
  /\ src.data = WhiteSpaceCrLfInput
  /\ src.chunk = 1
  /\ rrows = << << <<97>> >> >>
  /\ rres = NoErr

(***************************************************************************)
(* A quote inside an unquoted field.                                       *)
(***************************************************************************)
(* data holds only data bytes, quotes, commas and LFs, and no quote is the *)
(* first byte of a field.                                                  *)
QuotesInsideOnly(data) ==
  /\ data # <<>>
  /\ \A i \in 1..Len(data) :
       /\ data[i] \notin {13, 32, 9}
       /\ data[i] = 34 => (i > 1 /\ data[i - 1] \notin {44, 10})

(* The first line of data, its LF excluded. *)
FirstLine(data) == SubSeq(data, 1, FirstFrom(data, 1, {10}) - 1)

(* What row, the row returned by the first call on data, holds for the     *)
(* field that starts at p when its content starts with a data byte.        *)
UnquotedKeepsQuotes(data, row, p) ==
  LET q    == ContentStart(data, p)
      e    == FirstFrom(data, q, {44, 13, 10})
      cell == row[CellIndex(data, p)]
  IN  (q <= Len(data) /\ data[q] \notin {32, 9, 34, 44, 13, 10})
        => /\ Len(cell) >= e - q
           /\ SubSeq(cell, 1, e - q) = SubSeq(data, q, e - 1)
           /\ (e = Len(data) + 1 \/ data[e] \in {44, 10})
                => cell = SubSeq(data, q, e - 1)
           /\ (e <= Len(data) /\ data[e] = 44)
                => Len(row) > CellIndex(data, p)

C32_Step ==
  /\ (BeforeFirstCall /\ rres' = NoErr) =>
       \A p \in 1..Len(src.data) :
         FirstRowField(src.data, p)
           => UnquotedKeepsQuotes(src.data, rrows'[1], p)
  /\ (BeforeFirstCall /\ QuotesInsideOnly(src.data)) =>
       /\ rres' = NoErr
       /\ rrows' = << SplitCells(FirstLine(src.data)) >>
  /\ (phase = "read" /\ binds = 0 /\ QuotesInsideOnly(src.data)) =>
       rres' \in {NoErr, EOF}

(* C32: in the row that the first call returns, the cell of a field whose  *)
(* content starts with a data byte holds every byte from there up to the   *)
(* first comma, CR or LF, quotes and white space included, and is exactly  *)
(* these bytes when a comma, a LF or the end of the stream follows; a      *)
(* comma after it starts the next cell.  So for an input of data bytes,    *)
(* quotes, commas and LFs in which no field starts with a quote, no call   *)
(* fails and the first row is the first line split at its commas.          *)
C32_QuoteInUnquotedField == [][C32_Step]_vars

(* The row [a", a] was read from a",a. *)
C32_Witness ==
  /\ phase = "read"
  /\ src.data = <<97, 34, 44, 97>>
  /\ rrows = << << <<97, 34>>, <<97>> >> >>
  /\ rres = NoErr

(***************************************************************************)
(* After the closing quote of a quoted field.                              *)
(***************************************************************************)
(* The field at p is quoted and its first inner quote closes it: the byte  *)
(* after that quote, if any, is not a quote.                               *)
ClosedOnce(data, p) ==
  /\ ClosedQuote(data, p)
  /\ ClosingQuote(data, p) < Len(data)
       => data[ClosingQuote(data, p) + 1] # 34

C33_Step ==
  (BeforeFirstCall /\ rres' = NoErr) =>
    \A p \in 1..Len(src.data) :
      (FirstRowField(src.data, p) /\ ClosedOnce(src.data, p))
        => rrows'[1][CellIndex(src.data, p)] = QuotedText(src.data, p)

(* C33: when the first call returns a row, the cell of every quoted field  *)
(* of that row is the text between its quotes: whatever follows the        *)
(* closing quote, white space and CRs included, no byte after the closing  *)
(* quote is in the cell.                                                   *)
C33_ClosedQuoteStaysClosed == [][C33_Step]_vars

(***************************************************************************)
(* CRs outside quotes.                                                     *)
(***************************************************************************)
(* The number of CRs in the cells of row. *)
RECURSIVE CrsInRow(_)
CrsInRow(row) ==
  IF row = <<>> THEN 0
  ELSE Cardinality({i \in 1..Len(row[1]) : row[1][i] = 13})
         + CrsInRow(Tail(row))

(* The CRs of the first line of data that no LF follows immediately. *)
CrsWithoutLf(data) ==
  {i \in 1..Len(data) :
     /\ data[i] = 13
     /\ \A j \in 1..(i - 1) : data[j] # 10
     /\ i = Len(data) \/ data[i + 1] # 10}

C34_Step ==
  (BeforeFirstCall /\ \A i \in 1..Len(src.data) : src.data[i] # 34) =>
    (src.data # <<>> =>
       /\ rres' = NoErr
       /\ CrsInRow(rrows'[1]) = Cardinality(CrsWithoutLf(src.data)))

(* C34: for an input without quotes, the first call returns a row, and     *)
(* every CR of the first line that is not immediately followed by a LF is  *)
(* in a cell of that row, a CR that is the last byte of the stream too:    *)
(* the cells hold as many CRs as the line has CRs without a LF after them. *)
C34_NoCrLost == [][C34_Step]_vars

(***************************************************************************)
(* The bytes tokenized and the bytes the source delivered.                 *)
(***************************************************************************)
(* r.buf[r.pos:], the bytes scanCell tokenizes before it reads the source  *)
(* again, are the last bytes the source delivered.                         *)
BufferedIsDelivered(rd, sc) ==
  LET left == rd.bufLen - rd.pos
  IN  left > 0 =>
        /\ left <= sc.off
        /\ \A k \in 0..(left - 1) :
             BufAt(rd, rd.pos + k) = sc.data[sc.off - left + k + 1]

(* C35: whenever a call would tokenize (the stream is not complete), the   *)
(* bytes of the buffer that are not consumed yet are the last bytes the    *)
(* current source delivered, so that the bytes consumed are a prefix of    *)
(* the bytes delivered; and after a call on the current source the         *)
(* accumulator holds no more bytes than the source has delivered.  This    *)
(* holds after a Read that failed with no bytes and an error other than    *)
(* io.EOF as well.                                                         *)
C35_OnlyDeliveredBytes ==
  phase = "read" =>
    /\ ~r.fileDone => BufferedIsDelivered(r, src)
    /\ ((binds = 0 /\ HasScanned) \/ CalledSinceSetInput)
         => Len(r.parsed) <= src.off

=============================================================================
